---- MODULE Spec2Model ----
(***************************************************************************)
(* Closed-loop HVAC simulation of tp-nebulosos: fuzzy controller -> fan    *)
(* inertia -> cooling power -> thermal plant, the step function and the    *)
(* run loop of app/simulation/engine.py.                                   *)
(*                                                                         *)
(* Python floats are modelled as fixed-point integers.  Every physical     *)
(* quantity has a unit definition giving the number of model quanta per    *)
(* physical unit; a float operation whose exact result is not a whole      *)
(* number of quanta is rounded to the nearest quantum (RoundDiv), the way  *)
(* IEEE arithmetic rounds to the nearest representable value.              *)
(***************************************************************************)
EXTENDS Integers, Sequences, FiniteSets, TLC

VARIABLES parameters, heap, runs, probe

vars == <<parameters, heap, runs, probe>>

(***************************************************************************)
(* Fixed-point representation of float                                     *)
(***************************************************************************)
TimeUnit == 10          \* quanta per second
TempUnit == 10000000    \* quanta per degree Celsius
PowUnit == 10           \* quanta per watt
FanUnit == 100          \* quanta per percent of fan command
HumUnit == 10           \* quanta per percent of relative humidity
MuUnit == 1000          \* quanta per unit of membership degree

\* a / b rounded to the nearest integer (ties upward), b > 0
RoundDiv(a, b) == (a \div b) + (IF 2 * (a % b) >= b THEN 1 ELSE 0)

Abs(a) == IF a >= 0 THEN a ELSE -a

\* Python int(a / b): the quotient truncated toward zero, b /= 0
TruncDiv(a, b) ==
  IF (a >= 0) = (b > 0) THEN Abs(a) \div Abs(b) ELSE -(Abs(a) \div Abs(b))

Min2(a, b) == IF a <= b THEN a ELSE b
Max2(a, b) == IF a >= b THEN a ELSE b

\* Optional[float]: None is the empty tuple, a value v is <<v>>
None == <<>>
Some(v) == <<v>>

(***************************************************************************)
(* app/config/parameters.py: the module-level constants.  They are held in *)
(* a variable because fan_model, thermal_model and engine read them at     *)
(* call time and the tests and the configuration may set other values.     *)
(***************************************************************************)
ShippedParameters ==
  [ DT              |-> 1 * TimeUnit,
    C_THERMAL       |-> 1000000,
    T_INITIAL       |-> 30 * TempUnit,
    Q_BASE          |-> 2500 * PowUnit,
    Q_EXTRA_DEFAULT |-> 0 * PowUnit,
    Q_COOL_DEFAULT  |-> 0 * PowUnit,
    Q_MAX           |-> 18000 * PowUnit,
    TAU_FAN         |-> 10 * TimeUnit ]

DT == parameters.DT
C_THERMAL == parameters.C_THERMAL
Q_MAX == parameters.Q_MAX
TAU_FAN == parameters.TAU_FAN

(***************************************************************************)
(* app/plant/fan_model.py                                                  *)
(***************************************************************************)
\* mutant: the gain inverted, TAU_FAN / DT
_compute_alpha_inverted ==
  IF parameters.TAU_FAN > 0
    THEN [num |-> parameters.TAU_FAN, den |-> parameters.DT]
    ELSE [num |-> 1, den |-> 1]

\* alpha = DT / TAU_FAN if TAU_FAN > 0 else 1.0, kept as the fraction num/den
_compute_alpha ==
  IF TAU_FAN > 0 THEN [num |-> DT, den |-> TAU_FAN] ELSE [num |-> 1, den |-> 1]

\* mutant: the saturation to [0, 100] left out
update_fan_speed_unsaturated(u_fan_current, u_fuzzy) ==
  LET alpha == [num |-> IF parameters.TAU_FAN > 0 THEN parameters.DT ELSE 1,
                den |-> IF parameters.TAU_FAN > 0 THEN parameters.TAU_FAN ELSE 1]
  IN  u_fan_current + RoundDiv((u_fuzzy - u_fan_current) * alpha.num, alpha.den)

\* mutant: the fan moves away from the reference (sign of the correction)
update_fan_speed_reversed(u_fan_current, u_fuzzy) ==
  LET alpha == [num |-> IF parameters.TAU_FAN > 0 THEN parameters.DT ELSE 1,
                den |-> IF parameters.TAU_FAN > 0 THEN parameters.TAU_FAN ELSE 1]
      u_next == u_fan_current
                  - RoundDiv((u_fuzzy - u_fan_current) * alpha.num, alpha.den)
  IN  IF u_next < 0 THEN 0
      ELSE IF u_next > 100 * FanUnit THEN 100 * FanUnit
      ELSE u_next

update_fan_speed(u_fan_current, u_fuzzy) ==
  LET alpha == _compute_alpha
      u_next == u_fan_current
                  + RoundDiv((u_fuzzy - u_fan_current) * alpha.num, alpha.den)
  IN  IF u_next < 0 THEN 0
      ELSE IF u_next > 100 * FanUnit THEN 100 * FanUnit
      ELSE u_next

\* mutant: the input is not clamped
compute_cooling_power_unclamped(u_fan) ==
  RoundDiv(parameters.Q_MAX * u_fan, 100 * FanUnit)

\* mutant: the percentage is not divided by 100
compute_cooling_power_no_percent(u_fan) ==
  LET u == Max2(0, Min2(100 * FanUnit, u_fan))
  IN  RoundDiv(parameters.Q_MAX * u, FanUnit)

compute_cooling_power(u_fan) ==
  LET u == Max2(0, Min2(100 * FanUnit, u_fan))
  IN  RoundDiv(Q_MAX * u, 100 * FanUnit)

(***************************************************************************)
(* app/plant/thermal_model.py                                              *)
(***************************************************************************)
\* mutant: the temperature is kept from falling below zero
update_temperature_floored(T_current, Q_dist, Q_cool) ==
  LET dT == RoundDiv((Q_dist - Q_cool) * parameters.DT
                       * (TempUnit \div parameters.C_THERMAL),
                     TimeUnit * PowUnit)
  IN  Max2(0, T_current + dT)

\* mutant: the cooling power is left out of the net power
update_temperature_no_cooling(T_current, Q_dist, Q_cool) ==
  LET dT == RoundDiv(Q_dist * parameters.DT
                       * (TempUnit \div parameters.C_THERMAL),
                     TimeUnit * PowUnit)
  IN  T_current + dT

\* mutant: the sign of the net power reversed, Q_cool - Q_dist
update_temperature_reversed(T_current, Q_dist, Q_cool) ==
  LET dT == RoundDiv((Q_cool - Q_dist) * parameters.DT
                       * (TempUnit \div parameters.C_THERMAL),
                     TimeUnit * PowUnit)
  IN  T_current + dT

\* dT = (DT / C_THERMAL) * (Q_dist - Q_cool): seconds * watts / (J/K), then
\* converted to temperature quanta.
update_temperature(T_current, Q_dist, Q_cool) ==
  LET per_joule == IF C_THERMAL > 0 THEN TempUnit \div C_THERMAL
                   ELSE -(TempUnit \div (-C_THERMAL))
      dT == RoundDiv((Q_dist - Q_cool) * DT * per_joule, TimeUnit * PowUnit)
      T_next == T_current + dT
  IN  T_next

\* DT / C_THERMAL raises ZeroDivisionError when C_THERMAL is zero
update_temperature_raises == C_THERMAL = 0

(***************************************************************************)
(* app/control/membership.py.  A fuzzy variable is its sampled universe    *)
(* lo, lo+step, ..., hi and its triangular terms; `fine` is the number of  *)
(* crisp-value quanta per universe quantum.                                *)
(***************************************************************************)
ErrUnit == 100          \* universe quanta per degree Celsius of error

\* skfuzzy.trimf at one universe point x, abc = <<a, b, c>>
trimf(x, abc) ==
  LET a == abc[1]
      b == abc[2]
      c == abc[3]
  IN  IF x = b THEN MuUnit
      ELSE IF a /= b /\ a < x /\ x < b THEN RoundDiv((x - a) * MuUnit, b - a)
      ELSE IF b /= c /\ b < x /\ x < c THEN RoundDiv((c - x) * MuUnit, c - b)
      ELSE 0

\* hundredths of a degree as universe quanta
E(h) == h * (ErrUnit \div 100)

\* a fuzzy variable over np.arange(lo, hi + step, step): universe point k
\* (from 1) is lo + (k-1)*step, and mf[name] is fuzz.trimf(universe, abc),
\* the array of the term's membership at every universe point
FuzzyVariable(label, lo, hi, step, fine, terms) ==
  [ label |-> label,
    lo    |-> lo,
    hi    |-> hi,
    step  |-> step,
    fine  |-> fine,
    mf    |-> [t \in DOMAIN terms |->
                 [k \in 1 .. ((hi - lo) \div step + 1) |->
                    trimf(lo + (k - 1) * step, terms[t])]] ]

\* the breakpoints [a, b, c] given to fuzz.trimf, per term
ErrorTerms ==
  [ NL |-> <<E(-1000), E(-1000), E(-500)>>,
    NS |-> <<E(-600), E(-375), E(-150)>>,
    ZE |-> <<E(-200), E(0), E(200)>>,
    PS |-> <<E(150), E(375), E(600)>>,
    PL |-> <<E(500), E(1000), E(1000)>> ]

HumidityTerms ==
  [ Dry   |-> <<0 * HumUnit, 0 * HumUnit, 40 * HumUnit>>,
    Ideal |-> <<30 * HumUnit, 50 * HumUnit, 70 * HumUnit>>,
    Humid |-> <<60 * HumUnit, 100 * HumUnit, 100 * HumUnit>> ]

FanTerms ==
  [ Off    |-> <<0 * FanUnit, 0 * FanUnit, 20 * FanUnit>>,
    Low    |-> <<20 * FanUnit, 35 * FanUnit, 50 * FanUnit>>,
    Medium |-> <<40 * FanUnit, (575 * FanUnit) \div 10, 75 * FanUnit>>,
    High   |-> <<70 * FanUnit, 100 * FanUnit, 100 * FanUnit>> ]

create_error_antecedent ==
  FuzzyVariable("error", E(-1000), E(1000), E(10), TempUnit \div ErrUnit, ErrorTerms)

create_humidity_antecedent ==
  FuzzyVariable("humidity", 0 * HumUnit, 100 * HumUnit, 1 * HumUnit, 1, HumidityTerms)

create_fan_consequent ==
  FuzzyVariable("fan", 0 * FanUnit, 100 * FanUnit, 1 * FanUnit, 1, FanTerms)

(***************************************************************************)
(* app/control/fuzzy_controller.py                                         *)
(***************************************************************************)
\* antecedent expressions: e["PL"], a & b, a | b
Term(v, n) == [op |-> "term", var |-> v, name |-> n]
And(l, r) == [op |-> "and", left |-> l, right |-> r]
Or(l, r) == [op |-> "or", left |-> l, right |-> r]
Rule(a, c) == [antecedent |-> a, consequent |-> c]

\* mutant: the consequents of the PS rules for Dry and Humid exchanged
_build_rules_humid_low ==
  << Rule(And(Term("error", "PL"), Term("humidity", "Dry")), "Medium"),
     Rule(And(Term("error", "PL"),
              Or(Term("humidity", "Ideal"), Term("humidity", "Humid"))), "High"),
     Rule(And(Term("error", "PS"), Term("humidity", "Dry")), "High"),
     Rule(And(Term("error", "PS"), Term("humidity", "Ideal")), "Medium"),
     Rule(And(Term("error", "PS"), Term("humidity", "Humid")), "Low"),
     Rule(Term("error", "ZE"), "Low"),
     Rule(Or(Term("error", "NS"), Term("error", "NL")), "Off") >>

\* mutant: the rule for ZE concludes High instead of Low
_build_rules_zero_high ==
  << Rule(And(Term("error", "PL"), Term("humidity", "Dry")), "Medium"),
     Rule(And(Term("error", "PL"),
              Or(Term("humidity", "Ideal"), Term("humidity", "Humid"))), "High"),
     Rule(And(Term("error", "PS"), Term("humidity", "Dry")), "Low"),
     Rule(And(Term("error", "PS"), Term("humidity", "Ideal")), "Medium"),
     Rule(And(Term("error", "PS"), Term("humidity", "Humid")), "High"),
     Rule(Term("error", "ZE"), "High"),
     Rule(Or(Term("error", "NS"), Term("error", "NL")), "Off") >>

\* mutant: the rule for ZE split by humidity as the rules for PS are
_build_rules_zero_split ==
  << Rule(And(Term("error", "PL"), Term("humidity", "Dry")), "Medium"),
     Rule(And(Term("error", "PL"),
              Or(Term("humidity", "Ideal"), Term("humidity", "Humid"))), "High"),
     Rule(And(Term("error", "PS"), Term("humidity", "Dry")), "Low"),
     Rule(And(Term("error", "PS"), Term("humidity", "Ideal")), "Medium"),
     Rule(And(Term("error", "PS"), Term("humidity", "Humid")), "High"),
     Rule(And(Term("error", "ZE"),
              Or(Term("humidity", "Dry"), Term("humidity", "Ideal"))), "Low"),
     Rule(And(Term("error", "ZE"), Term("humidity", "Humid")), "Medium"),
     Rule(Or(Term("error", "NS"), Term("error", "NL")), "Off") >>

\* mutant: the rule for NS or NL concludes Low instead of Off
_build_rules_cold_low ==
  << Rule(And(Term("error", "PL"), Term("humidity", "Dry")), "Medium"),
     Rule(And(Term("error", "PL"),
              Or(Term("humidity", "Ideal"), Term("humidity", "Humid"))), "High"),
     Rule(And(Term("error", "PS"), Term("humidity", "Dry")), "Low"),
     Rule(And(Term("error", "PS"), Term("humidity", "Ideal")), "Medium"),
     Rule(And(Term("error", "PS"), Term("humidity", "Humid")), "High"),
     Rule(Term("error", "ZE"), "Low"),
     Rule(Or(Term("error", "NS"), Term("error", "NL")), "Low") >>

_build_rules ==
  << Rule(And(Term("error", "PL"), Term("humidity", "Dry")), "Medium"),
     Rule(And(Term("error", "PL"),
              Or(Term("humidity", "Ideal"), Term("humidity", "Humid"))), "High"),
     Rule(And(Term("error", "PS"), Term("humidity", "Dry")), "Low"),
     Rule(And(Term("error", "PS"), Term("humidity", "Ideal")), "Medium"),
     Rule(And(Term("error", "PS"), Term("humidity", "Humid")), "High"),
     Rule(Term("error", "ZE"), "Low"),
     Rule(Or(Term("error", "NS"), Term("error", "NL")), "Off") >>

\* ErrorHumidityFuzzyController.__init__
ErrorHumidityFuzzyController ==
  [ error    |-> create_error_antecedent,
    humidity |-> create_humidity_antecedent,
    fan      |-> create_fan_consequent,
    rules    |-> _build_rules ]

\* skfuzzy.interp_membership: the sampled membership function of a term,
\* linearly interpolated at the crisp value xx, zero outside the universe
interp_membership(var, xmf, xx) ==
  LET w   == var.step * var.fine
      pos == xx - var.lo * var.fine
      k   == pos \div w + 1
      f   == pos % w
  IN  IF xx < var.lo * var.fine \/ xx > var.hi * var.fine THEN 0
      ELSE IF f = 0 THEN xmf[k]
      ELSE xmf[k] + RoundDiv((xmf[k + 1] - xmf[k]) * f, w)

\* mutant: the input is taken as given, not clipped
clip_to_bounds_off(var, value) == value

\* sim.input[label] = value: clipped to the bounds of the universe
clip_to_bounds(var, value) ==
  Max2(var.lo * var.fine, Min2(var.hi * var.fine, value))

\* fuzzification: the degree of every term of an antecedent at its input
fuzz(var, value) ==
  [t \in DOMAIN var.mf |-> interp_membership(var, var.mf[t], value)]

\* firing strength of an antecedent expression: & is min, | is max
RECURSIVE membership_value(_, _)
membership_value(expr, mu) ==
  CASE expr.op = "term" -> mu[expr.var][expr.name]
    [] expr.op = "and"  -> Min2(membership_value(expr.left, mu),
                                membership_value(expr.right, mu))
    [] expr.op = "or"   -> Max2(membership_value(expr.left, mu),
                                membership_value(expr.right, mu))

SetMax(S) == CHOOSE x \in S : \A y \in S : y <= x
SetMin(S) == CHOOSE x \in S : \A y \in S : x <= y

\* mutant: the rule for ZE is missing from the rule base's evaluation
rule_strengths_no_zero(controller, error_value, humidity) ==
  LET mu == [ error    |-> fuzz(controller.error,
                                clip_to_bounds(controller.error, error_value)),
              humidity |-> fuzz(controller.humidity,
                                clip_to_bounds(controller.humidity, humidity)) ]
  IN  [i \in DOMAIN controller.rules |->
         IF controller.rules[i].antecedent = Term("error", "ZE") THEN 0
         ELSE membership_value(controller.rules[i].antecedent, mu)]

\* the firing strength of every rule at the (clipped) crisp inputs
rule_strengths(controller, error_value, humidity) ==
  LET mu == [ error    |-> fuzz(controller.error,
                                clip_to_bounds(controller.error, error_value)),
              humidity |-> fuzz(controller.humidity,
                                clip_to_bounds(controller.humidity, humidity)) ]
  IN  [i \in DOMAIN controller.rules |->
         membership_value(controller.rules[i].antecedent, mu)]

\* accumulation: the cut of each consequent term is the maximum firing
\* strength of the rules concluding it
compute_rules(controller, error_value, humidity) ==
  LET rules == controller.rules
      strength == rule_strengths(controller, error_value, humidity)
  IN  [t \in DOMAIN controller.fan.mf |->
         LET fired == { strength[i] :
                          i \in {j \in DOMAIN rules : rules[j].consequent = t} }
         IN  IF fired = {} THEN 0 ELSE SetMax(fired)]

\* the terms over cell k of the output universe, between universe points
\* k and k+1: for each term its membership at both points and its cut
cell_terms(fan, cut, k) ==
  { <<fan.mf[t][k], fan.mf[t][k + 1], cut[t]>> : t \in DOMAIN fan.mf }

\* the crossings of the sampled memberships with their cuts inside a cell
\* (skfuzzy interp_universe), as offsets 0..step from the left edge; these
\* points are added to the output universe before defuzzification
cut_points(segs, step) ==
  { IF abc[1] < abc[2]
      THEN RoundDiv((abc[3] - abc[1]) * step, abc[2] - abc[1])
      ELSE step - RoundDiv((abc[3] - abc[2]) * step, abc[1] - abc[2]) :
      abc \in { s \in segs : s[3] > 0 /\ ((s[1] >= s[3]) /= (s[2] >= s[3])) } }

\* aggregated output membership at offset p of a cell: the maximum over the
\* terms of the term's interpolated membership clipped at its cut
output_mf(segs, step, p) ==
  SetMax({ Min2(abc[3], abc[1] + RoundDiv((abc[2] - abc[1]) * p, step)) :
             abc \in segs })

\* skfuzzy.centroid over one cell: twice the area and twice the moment about
\* the left edge of the cell, summed over the trapezoids between its points
RECURSIVE cell_sums(_, _, _, _)
cell_sums(segs, step, pts, p) ==
  IF p = step THEN [area |-> 0, moment |-> 0]
  ELSE LET q    == SetMin({r \in pts : r > p})
           y1   == output_mf(segs, step, p)
           y2   == output_mf(segs, step, q)
           dx   == q - p
           rest == cell_sums(segs, step, pts, q)
       IN  [ area   |-> rest.area + dx * (y1 + y2),
             moment |-> rest.moment + p * dx * (y1 + y2)
                          + RoundDiv(dx * dx * (y1 + 2 * y2), 3) ]

\* the aggregated membership is not identically zero over cell k
cell_active(fan, cut, k) ==
  \E t \in DOMAIN fan.mf :
     cut[t] > 0 /\ (fan.mf[t][k] > 0 \/ fan.mf[t][k + 1] > 0)

\* sums over the cells k1 .. k2-1 of the universe: twice the area, the area
\* weighted by the offset of the cell, and the moments within the cells
RECURSIVE centroid_sums(_, _, _, _)
centroid_sums(fan, cut, k1, k2) ==
  IF k2 <= k1 THEN [area |-> 0, karea |-> 0, moment |-> 0]
  ELSE IF k2 = k1 + 1 THEN
    IF ~cell_active(fan, cut, k1) THEN [area |-> 0, karea |-> 0, moment |-> 0]
    ELSE LET segs == cell_terms(fan, cut, k1)
             c    == cell_sums(segs, fan.step,
                               {0, fan.step} \cup cut_points(segs, fan.step), 0)
         IN  [area |-> c.area, karea |-> (k1 - 1) * c.area, moment |-> c.moment]
  ELSE
    LET mid   == (k1 + k2) \div 2
        left  == centroid_sums(fan, cut, k1, mid)
        right == centroid_sums(fan, cut, mid, k2)
    IN  [ area   |-> left.area + right.area,
          karea  |-> left.karea + right.karea,
          moment |-> left.moment + right.moment ]

\* skfuzzy.defuzz(universe, mf, 'centroid'): sum(moment * area) / sum(area),
\* in fan quanta; the total area is not zero
centroid(fan, cut) ==
  LET s == centroid_sums(fan, cut, 1, (fan.hi - fan.lo) \div fan.step + 1)
  IN  fan.lo + (s.karea \div s.area) * fan.step
        + RoundDiv((s.karea % s.area) * fan.step + s.moment, s.area)

\* defuzz asserts that the aggregated membership is not identically zero;
\* the simulation turns the failed assertion into a ValueError
defuzz_raises(controller, error_value, humidity) ==
  \A t \in DOMAIN controller.fan.mf :
     compute_rules(controller, error_value, humidity)[t] = 0

\* ErrorHumidityFuzzyController.compute_u_fuzzy, when it returns
compute_u_fuzzy(controller, T, T_set, humidity) ==
  LET error_value == T - T_set
      u_fuzzy == centroid(controller.fan,
                          compute_rules(controller, error_value, humidity))
  IN  IF u_fuzzy < 0 THEN 0
      ELSE IF u_fuzzy > 100 * FanUnit THEN 100 * FanUnit
      ELSE u_fuzzy

\* mutant: the simulation object is kept on the controller with its result,
\* and a later call returns the kept result
compute_u_fuzzy_call_cached(self, T, T_set, humidity) ==
  LET kept   == "_sim" \in DOMAIN self
      raised == IF kept THEN self._sim.raised
                ELSE defuzz_raises(self, T - T_set, humidity)
      value  == IF kept THEN self._sim.value
                ELSE IF raised THEN 0
                ELSE compute_u_fuzzy(self, T, T_set, humidity)
  IN  [ self   |-> [f \in DOMAIN self \cup {"_sim"} |->
                      IF f = "_sim" THEN [raised |-> raised, value |-> value]
                      ELSE self[f]],
        raised |-> raised,
        value  |-> value ]

\* one call self.compute_u_fuzzy(T, T_set, humidity): the controller object
\* after the call (no attribute of self is assigned), whether sim.compute()
\* raised, and the value returned otherwise
compute_u_fuzzy_call(self, T, T_set, humidity) ==
  LET raised == defuzz_raises(self, T - T_set, humidity)
  IN  [ self   |-> self,
        raised |-> raised,
        value  |-> IF raised THEN 0 ELSE compute_u_fuzzy(self, T, T_set, humidity) ]

(***************************************************************************)
(* app/simulation/state.py and history.py                                  *)
(***************************************************************************)
SimulationState(time, temperature, fan_speed, fuzzy_output, q_cool, q_dist) ==
  [ time         |-> time,
    temperature  |-> temperature,
    fan_speed    |-> fan_speed,
    fuzzy_output |-> fuzzy_output,
    q_cool       |-> q_cool,
    q_dist       |-> q_dist ]

\* mutant: `if not T0` instead of `if T0 is None`
SimulationState_initial_falsy(T0) ==
  SimulationState(0,
                  IF T0 = None \/ T0[1] = 0 THEN parameters.T_INITIAL ELSE T0[1],
                  0, 0, 0,
                  parameters.Q_BASE + parameters.Q_EXTRA_DEFAULT)

\* SimulationState.initial(T0): the field values of the new object
SimulationState_initial(T0) ==
  SimulationState(0,
                  IF T0 = None THEN parameters.T_INITIAL ELSE T0[1],
                  0, 0, 0,
                  parameters.Q_BASE + parameters.Q_EXTRA_DEFAULT)

\* mutant: the six lists are class-level defaults shared by every instance
SimulationHistory_shared ==
  LET made == {q \in DOMAIN runs : runs[q].pc \notin {"call", "client"}}
  IN  IF made = {}
        THEN [ time |-> <<>>, temperature |-> <<>>, fan_speed |-> <<>>,
               fuzzy_output |-> <<>>, q_cool |-> <<>>, q_dist |-> <<>> ]
        ELSE runs[CHOOSE q \in made : TRUE].history

\* SimulationHistory(): six empty lists
SimulationHistory ==
  [ time         |-> <<>>,
    temperature  |-> <<>>,
    fan_speed    |-> <<>>,
    fuzzy_output |-> <<>>,
    q_cool       |-> <<>>,
    q_dist       |-> <<>> ]

\* mutant: the fan speed is appended to the fuzzy_output list as well
append_crossed(self, state) ==
  [ time         |-> Append(self.time, state.time),
    temperature  |-> Append(self.temperature, state.temperature),
    fan_speed    |-> Append(self.fan_speed, state.fan_speed),
    fuzzy_output |-> Append(self.fuzzy_output, state.fan_speed),
    q_cool       |-> Append(self.q_cool, state.q_cool),
    q_dist       |-> Append(self.q_dist, state.q_dist) ]

\* SimulationHistory.append(state)
append(self, state) ==
  [ time         |-> Append(self.time, state.time),
    temperature  |-> Append(self.temperature, state.temperature),
    fan_speed    |-> Append(self.fan_speed, state.fan_speed),
    fuzzy_output |-> Append(self.fuzzy_output, state.fuzzy_output),
    q_cool       |-> Append(self.q_cool, state.q_cool),
    q_dist       |-> Append(self.q_dist, state.q_dist) ]

(***************************************************************************)
(* app/simulation/engine.py.  SimulationState objects live in `heap`, a    *)
(* sequence indexed by object reference; a call that constructs an object  *)
(* returns the heap with the object added and the reference to it.         *)
(***************************************************************************)
new(h, obj) == [heap |-> Append(h, obj), ref |-> Len(h) + 1]

\* mutant: the cooling power is computed from the previous fan speed
simulate_step_stale_cooling(h, state, controller, T_set, humidity, q_extra) ==
  LET u_fuzzy  == compute_u_fuzzy(controller, h[state].temperature, T_set, humidity)
      fan_next == update_fan_speed(h[state].fan_speed, u_fuzzy)
      q_cool   == compute_cooling_power(h[state].fan_speed)
      q_dist   == parameters.Q_BASE + q_extra
      T_next   == update_temperature(h[state].temperature, q_dist, q_cool)
      t_next   == h[state].time + parameters.DT
  IN  new(h, SimulationState(t_next, T_next, fan_next, u_fuzzy, q_cool, q_dist))

\* mutant: the input state object is updated in place and returned
simulate_step_in_place(h, state, controller, T_set, humidity, q_extra) ==
  LET u_fuzzy  == compute_u_fuzzy(controller, h[state].temperature, T_set, humidity)
      fan_next == update_fan_speed(h[state].fan_speed, u_fuzzy)
      q_cool   == compute_cooling_power(fan_next)
      q_dist   == parameters.Q_BASE + q_extra
      T_next   == update_temperature(h[state].temperature, q_dist, q_cool)
      t_next   == h[state].time + parameters.DT
  IN  [ heap |-> [h EXCEPT ![state] =
                    SimulationState(t_next, T_next, fan_next, u_fuzzy, q_cool, q_dist)],
        ref  |-> state ]

\* mutant: the extra load is left out of the disturbance
simulate_step_no_extra(h, state, controller, T_set, humidity, q_extra) ==
  LET u_fuzzy  == compute_u_fuzzy(controller, h[state].temperature, T_set, humidity)
      fan_next == update_fan_speed(h[state].fan_speed, u_fuzzy)
      q_cool   == compute_cooling_power(fan_next)
      q_dist   == parameters.Q_BASE
      T_next   == update_temperature(h[state].temperature, q_dist, q_cool)
      t_next   == h[state].time + parameters.DT
  IN  new(h, SimulationState(t_next, T_next, fan_next, u_fuzzy, q_cool, q_dist))

\* simulate_step, when the controller returns
simulate_step(h, state, controller, T_set, humidity, q_extra) ==
  LET plant(u_fuzzy) ==
        LET fan_next == update_fan_speed(h[state].fan_speed, u_fuzzy)
            q_cool   == compute_cooling_power(fan_next)
            q_dist   == parameters.Q_BASE + q_extra
            T_next   == update_temperature(h[state].temperature, q_dist, q_cool)
            t_next   == h[state].time + parameters.DT
        IN  new(h, SimulationState(t_next, T_next, fan_next, u_fuzzy, q_cool,
                                   q_dist))
  IN  CHOOSE made \in
        { plant(u_fuzzy) :
            u_fuzzy \in { compute_u_fuzzy(controller, h[state].temperature,
                                          T_set, humidity) } } : TRUE

\* mutant: the quotient rounded to the nearest integer instead of truncated
n_steps_rounded(duration_s) == RoundDiv(duration_s, parameters.DT)

\* n_steps = int(duration_s / parameters.DT)
n_steps_of(duration_s) == TruncDiv(duration_s, parameters.DT)

(***************************************************************************)
(* Bounds and input sets                                                   *)
(***************************************************************************)
MaxSteps == 3   \* longest run_simulation duration, in seconds
MaxCalls == 4   \* most calls of simulate_step by the step-by-step caller
MaxFan == 12    \* fan calls counted by the actuator harness
MaxThermal == 6 \* calls of update_temperature by the plant harness

\* durations on a half-second grid: negative, zero, multiples of DT and not
DurationInputs ==
  { h * (TimeUnit \div 2) : h \in (-2 * MaxSteps) .. (2 * MaxSteps) }
T0Inputs == { None, Some(0 * TempUnit), Some(26 * TempUnit + TempUnit \div 2) }
TSetInputs == { 24 * TempUnit }
HumidityInputs == { 30 * HumUnit, 60 * HumUnit }
QExtraInputs == { 0 * PowUnit, 3000 * PowUnit }

\* <<T_set, humidity, q_extra>> of one simulate_step call, with values
\* outside the universes of the controller
StepInputs ==
  { <<24 * TempUnit, 60 * HumUnit, 3000 * PowUnit>>,
    <<40 * TempUnit, -20 * HumUnit, -5000 * PowUnit>>,
    <<10 * TempUnit, 120 * HumUnit, 20000 * PowUnit>> }

(***************************************************************************)
(* run_simulation as a process: the frame of one call                      *)
(***************************************************************************)
Frame(pc, duration_s, T_set, humidity, q_extra, T0) ==
  [ pc         |-> pc,
    duration_s |-> duration_s,
    T_set      |-> T_set,
    humidity   |-> humidity,
    q_extra    |-> q_extra,
    T0         |-> T0,
    controller |-> None,
    state      |-> 0,
    history    |-> None,
    n_steps    |-> 0,
    i          |-> 0 ]

NoProbe == [u_start |-> 0, u_prev |-> None, u_fan |-> 0, u_ref |-> 0, n |-> 0,
            q_in |-> None, q_cool |-> 0]

\* mutant: the initial state is not recorded before the loop
run_simulation_begin_no_record(r) ==
  /\ runs[r].pc = "call"
  /\ LET made == new(heap, SimulationState_initial(runs[r].T0))
     IN  /\ heap' = made.heap
         /\ runs' = [runs EXCEPT
                       ![r].controller = ErrorHumidityFuzzyController,
                       ![r].state = made.ref,
                       ![r].history = SimulationHistory,
                       ![r].n_steps = n_steps_of(runs[r].duration_s),
                       ![r].i = 0,
                       ![r].pc = "loop"]
  /\ UNCHANGED <<parameters, probe>>

\* engine.py lines 113-120: controller, initial state, history, n_steps and
\* the record of the initial state
run_simulation_begin(r) ==
  /\ runs[r].pc = "call"
  /\ LET made == new(heap, SimulationState_initial(runs[r].T0))
     IN  /\ heap' = made.heap
         /\ runs' = [runs EXCEPT
                       ![r].controller = ErrorHumidityFuzzyController,
                       ![r].state = made.ref,
                       ![r].history = append(SimulationHistory, made.heap[made.ref]),
                       ![r].n_steps = n_steps_of(runs[r].duration_s),
                       ![r].i = 0,
                       ![r].pc = "loop"]
  /\ UNCHANGED <<parameters, probe>>

\* engine.py lines 122-129: state = simulate_step(...); an exception of the
\* controller or of the plant leaves run_simulation
run_simulation_step(r) ==
  /\ runs[r].pc = "loop"
  /\ runs[r].i < runs[r].n_steps
  /\ IF \/ defuzz_raises(runs[r].controller,
                         heap[runs[r].state].temperature - runs[r].T_set,
                         runs[r].humidity)
        \/ update_temperature_raises
     THEN /\ runs' = [runs EXCEPT ![r].pc = "raised"]
          /\ heap' = heap
     ELSE LET made == simulate_step(heap, runs[r].state, runs[r].controller,
                                    runs[r].T_set, runs[r].humidity, runs[r].q_extra)
          IN  /\ heap' = made.heap
              /\ runs' = [runs EXCEPT ![r].state = made.ref, ![r].pc = "append"]
  /\ UNCHANGED <<parameters, probe>>

\* mutant: the history is one module-level object, so the append of one run
\* is seen in the history of every run that has begun
run_simulation_append_all(r) ==
  /\ runs[r].pc = "append"
  /\ runs' = [q \in DOMAIN runs |->
                IF q = r
                  THEN [runs[q] EXCEPT
                          !.history = append(runs[q].history, heap[runs[r].state]),
                          !.i = runs[q].i + 1,
                          !.pc = "loop"]
                ELSE IF runs[q].history /= None
                  THEN [runs[q] EXCEPT
                          !.history = append(runs[q].history, heap[runs[r].state])]
                ELSE runs[q]]
  /\ UNCHANGED <<parameters, heap, probe>>

\* engine.py line 130: history.append(state), and the next iteration
run_simulation_append(r) ==
  /\ runs[r].pc = "append"
  /\ runs' = [runs EXCEPT
                ![r].history = append(runs[r].history, heap[runs[r].state]),
                ![r].i = runs[r].i + 1,
                ![r].pc = "loop"]
  /\ UNCHANGED <<parameters, heap, probe>>

\* engine.py line 132: return state, history
run_simulation_return(r) ==
  /\ runs[r].pc = "loop"
  /\ runs[r].i >= runs[r].n_steps
  /\ runs' = [runs EXCEPT ![r].pc = "done"]
  /\ UNCHANGED <<parameters, heap, probe>>

Init ==
  /\ parameters = ShippedParameters
  /\ heap = <<>>
  /\ runs \in [ {1} -> { Frame("call", d, ts, hu, qe, t0) :
                           d \in DurationInputs, ts \in TSetInputs,
                           hu \in HumidityInputs, qe \in QExtraInputs,
                           t0 \in T0Inputs } ]
  /\ probe = NoProbe

Begin == \E r \in DOMAIN runs : run_simulation_begin(r)
Step == \E r \in DOMAIN runs : run_simulation_step(r)
Record == \E r \in DOMAIN runs : run_simulation_append(r)
Return == \E r \in DOMAIN runs : run_simulation_return(r)

Next == Begin \/ Step \/ Record \/ Return

Spec == Init /\ [][Next]_vars

(***************************************************************************)
(* run_simulation under other values of the constants of parameters.py,    *)
(* values without physical meaning included: a thermal capacity of zero or *)
(* below, a negative time step, a negative cooling capacity.               *)
(***************************************************************************)
ConfigParameters ==
  { [ShippedParameters EXCEPT !.C_THERMAL = c, !.DT = dt, !.Q_MAX = q] :
      c \in { -1000000, 0, 1000000 },
      dt \in { -1 * TimeUnit, 1 * TimeUnit },
      q \in { -18000 * PowUnit, 18000 * PowUnit } }
ConfigDurations == { -2 * TimeUnit, 0 * TimeUnit, 2 * TimeUnit }

InitConfig ==
  /\ parameters \in ConfigParameters
  /\ heap = <<>>
  /\ runs \in [ {1} -> { Frame("call", d, 24 * TempUnit, 60 * HumUnit, qe, None) :
                           d \in ConfigDurations, qe \in QExtraInputs } ]
  /\ probe = NoProbe

SpecConfig == InitConfig /\ [][Next]_vars

(***************************************************************************)
(* run_simulation as one uninterrupted call, the way the closed-loop tests *)
(* of tests/test_closed_loop.py use it: a 45 minute run under 3000 W, and  *)
(* 30 minute runs under 1000 W and then 5000 W, all from 30 degrees with   *)
(* setpoint 24 and humidity 60; the same calls are also made with short    *)
(* durations.                                                              *)
(***************************************************************************)
\* one pass of the body of the for loop (engine.py lines 122-130) on the
\* locals of the call and the heap; an exception ends the call
loop_iteration(loc) ==
  LET f == loc.frame
  IN  IF f.pc = "raised" THEN loc
      ELSE IF \/ defuzz_raises(f.controller,
                               loc.heap[f.state].temperature - f.T_set, f.humidity)
              \/ update_temperature_raises
        THEN [loc EXCEPT !.frame.pc = "raised"]
      ELSE CHOOSE next \in
             { [ frame |-> [f EXCEPT !.state = made.ref,
                                     !.history = append(f.history,
                                                        made.heap[made.ref]),
                                     !.i = f.i + 1],
                 heap  |-> made.heap ] :
               made \in { simulate_step(loc.heap, f.state, f.controller, f.T_set,
                                        f.humidity, f.q_extra) } } : TRUE

\* n passes of the loop body
RECURSIVE run_loop(_, _)
run_loop(loc, n) ==
  IF n <= 0 THEN loc
  ELSE IF n = 1 THEN loop_iteration(loc)
  ELSE CHOOSE out \in
         { IF half.frame.pc = "raised" THEN half
           ELSE run_loop(half, n - n \div 2) :
           half \in { run_loop(loc, n \div 2) } } : TRUE

\* run_simulation(duration_s, T_set, humidity, q_extra, T0) from call to
\* return: the frame at the return and the heap
run_simulation(frame, h) ==
  LET made  == new(h, SimulationState_initial(frame.T0))
      start == [frame EXCEPT
                  !.controller = ErrorHumidityFuzzyController,
                  !.state = made.ref,
                  !.history = append(SimulationHistory, made.heap[made.ref]),
                  !.n_steps = n_steps_of(frame.duration_s),
                  !.i = 0,
                  !.pc = "loop"]
      out   == run_loop([frame |-> start, heap |-> made.heap], start.n_steps)
  IN  [ frame |-> [out.frame EXCEPT
                     !.pc = IF out.frame.pc = "raised" THEN "raised" ELSE "done"],
        heap  |-> out.heap ]

MaxShort == 25   \* longest of the short durations, in seconds

ScenarioFrame(duration_s, q_extra) ==
  Frame("call", duration_s, 24 * TempUnit, 60 * HumUnit, q_extra,
        Some(30 * TempUnit))

\* the calls of one test, in order
ScenarioCalls ==
  { <<ScenarioFrame(d, 3000 * PowUnit)>> :
      d \in { k * TimeUnit : k \in 0 .. MaxShort } \cup { 45 * 60 * TimeUnit } }
  \cup
  { <<ScenarioFrame(d, 1000 * PowUnit), ScenarioFrame(d, 5000 * PowUnit)>> :
      d \in { k * TimeUnit : k \in 0 .. MaxShort } \cup { 30 * 60 * TimeUnit } }

\* the next call of the test, made when the calls before it have returned
run_simulation_call(r) ==
  /\ runs[r].pc = "call"
  /\ \A q \in 1 .. (r - 1) : runs[q].pc \in {"done", "raised"}
  /\ \E out \in {run_simulation(runs[r], heap)} :
        /\ heap' = out.heap
        /\ runs' = [runs EXCEPT ![r] = out.frame]
  /\ UNCHANGED <<parameters, probe>>

InitScenario ==
  /\ parameters = ShippedParameters
  /\ heap = <<>>
  /\ runs \in ScenarioCalls
  /\ probe = NoProbe

Run == \E r \in DOMAIN runs : run_simulation_call(r)

NextScenario == Run

SpecScenario == InitScenario /\ [][NextScenario]_vars

(***************************************************************************)
(* Two calls of run_simulation whose steps interleave; the heap of         *)
(* SimulationState objects is the one of the interpreter.                  *)
(***************************************************************************)
PairDurations == { 1 * TimeUnit, 2 * TimeUnit }
PairT0Inputs == { None, Some(26 * TempUnit + TempUnit \div 2) }

InitPair ==
  /\ parameters = ShippedParameters
  /\ heap = <<>>
  /\ runs \in [ {1, 2} -> { Frame("call", d, 24 * TempUnit, 60 * HumUnit,
                                    3000 * PowUnit, t0) :
                              d \in PairDurations, t0 \in PairT0Inputs } ]
  /\ probe = NoProbe

SpecPair == InitPair /\ [][Next]_vars

(***************************************************************************)
(* A caller that drives simulate_step one call at a time, each call with   *)
(* its own T_set, humidity and q_extra.                                    *)
(***************************************************************************)
call_simulate_step(r, T_set, humidity, q_extra) ==
  /\ runs[r].pc = "client"
  /\ runs[r].i < MaxCalls
  /\ IF \/ defuzz_raises(runs[r].controller,
                         heap[runs[r].state].temperature - T_set, humidity)
        \/ update_temperature_raises
     THEN /\ runs' = [runs EXCEPT ![r].pc = "raised"]
          /\ heap' = heap
     ELSE LET made == simulate_step(heap, runs[r].state, runs[r].controller,
                                    T_set, humidity, q_extra)
          IN  /\ heap' = made.heap
              /\ runs' = [runs EXCEPT ![r].state = made.ref,
                                      ![r].T_set = T_set,
                                      ![r].humidity = humidity,
                                      ![r].q_extra = q_extra,
                                      ![r].i = runs[r].i + 1]
  /\ UNCHANGED <<parameters, probe>>

InitStep ==
  /\ parameters = ShippedParameters
  /\ \E t0 \in T0Inputs :
        /\ heap = <<SimulationState_initial(t0)>>
        /\ runs = [r \in {1} |->
                     [Frame("client", 0, 0, 0, 0, t0) EXCEPT
                        !.controller = ErrorHumidityFuzzyController,
                        !.state = 1]]
  /\ probe = NoProbe

Call == \E r \in DOMAIN runs : \E inp \in StepInputs :
           call_simulate_step(r, inp[1], inp[2], inp[3])

NextStep == Call

SpecStep == InitStep /\ [][NextStep]_vars

(***************************************************************************)
(* The actuator functions called on their own: update_fan_speed repeatedly *)
(* toward a constant reference, compute_cooling_power on the fan command.  *)
(***************************************************************************)
FanInputs == { -50 * FanUnit, 0 * FanUnit, 50 * FanUnit, 100 * FanUnit, 150 * FanUnit }
RefInputs == { -50 * FanUnit, 0 * FanUnit, (125 * FanUnit) \div 2, 100 * FanUnit,
               150 * FanUnit }
TauInputs == { 0 * TimeUnit, ShippedParameters.TAU_FAN }

\* u_fan = update_fan_speed(u_fan, u_ref); n counts the calls up to MaxFan
fan_call ==
  /\ probe' = [probe EXCEPT !.u_prev = Some(probe.u_fan),
                            !.u_fan = update_fan_speed(probe.u_fan, probe.u_ref),
                            !.n = Min2(probe.n + 1, MaxFan),
                            !.q_in = None,
                            !.q_cool = 0]
  /\ UNCHANGED <<parameters, heap, runs>>

\* q_cool = compute_cooling_power(u_fan)
cool_call ==
  /\ probe' = [probe EXCEPT !.q_in = Some(probe.u_fan),
                            !.q_cool = compute_cooling_power(probe.u_fan)]
  /\ UNCHANGED <<parameters, heap, runs>>

InitFan ==
  /\ parameters \in { [ShippedParameters EXCEPT !.TAU_FAN = tau] : tau \in TauInputs }
  /\ heap = <<>>
  /\ runs = <<>>
  /\ probe \in { [u_start |-> u, u_prev |-> None, u_fan |-> u, u_ref |-> ref, n |-> 0,
                  q_in |-> None, q_cool |-> 0] : u \in FanInputs, ref \in RefInputs }

NextFan == fan_call \/ cool_call

SpecFan == InitFan /\ [][NextFan]_vars

\* the caller keeps calling update_fan_speed
LiveFan == SpecFan /\ WF_vars(fan_call)

(***************************************************************************)
(* update_temperature called repeatedly with a constant disturbance and a  *)
(* constant cooling power, under the shipped constants and under a half    *)
(* second step and half the thermal capacity.                              *)
(***************************************************************************)
ThermalT0Inputs == { -20 * TempUnit, 0 * TempUnit, 30 * TempUnit, 100 * TempUnit }
ThermalQInputs == { 0 * PowUnit, 2500 * PowUnit, 18000 * PowUnit }
ThermalParameters ==
  { ShippedParameters,
    [ShippedParameters EXCEPT !.DT = TimeUnit \div 2, !.C_THERMAL = 500000] }

\* T = update_temperature(T, Q_dist, Q_cool)
thermal_call ==
  /\ probe.n < MaxThermal
  /\ probe' = [probe EXCEPT !.T = update_temperature(probe.T, probe.Q_dist,
                                                     probe.Q_cool),
                            !.n = probe.n + 1]
  /\ UNCHANGED <<parameters, heap, runs>>

InitThermal ==
  /\ parameters \in ThermalParameters
  /\ heap = <<>>
  /\ runs = <<>>
  /\ probe \in { [T_0 |-> t, T |-> t, Q_dist |-> qd, Q_cool |-> qc, n |-> 0] :
                  t \in ThermalT0Inputs, qd \in ThermalQInputs,
                  qc \in ThermalQInputs }

NextThermal == thermal_call

SpecThermal == InitThermal /\ [][NextThermal]_vars

(***************************************************************************)
(* tests/test_fan_plus_thermal.py: the plant driven without the controller, *)
(* the fan following a fixed reference and the temperature the resulting   *)
(* cooling power under a constant disturbance.                             *)
(***************************************************************************)
\* simulate_closed_loop_without_fuzzy(T0, u_fan0, u_ref, Q_dist, steps) at its
\* call: the locals T and u_fan, the pass i of the loop; u_prev is the fan
\* command before the last pass
open_loop_call(T0, u_fan0, u_ref, Q_dist, steps) ==
  [ T0 |-> T0, T |-> T0, u_fan |-> u_fan0, u_prev |-> None, u_ref |-> u_ref,
    Q_dist |-> Q_dist, Q_cool |-> 0, steps |-> steps, i |-> 0 ]

\* one pass of the loop: the fan, then the cooling power, then the plant
open_loop_step ==
  /\ probe.i < probe.steps
  /\ \E u_fan \in { update_fan_speed(probe.u_fan, probe.u_ref) } :
       \E Q_cool \in { compute_cooling_power(u_fan) } :
          probe' = [probe EXCEPT
                      !.u_prev = Some(probe.u_fan),
                      !.u_fan = u_fan,
                      !.Q_cool = Q_cool,
                      !.T = update_temperature(probe.T, probe.Q_dist, Q_cool),
                      !.i = probe.i + 1]
  /\ UNCHANGED <<parameters, heap, runs>>

\* test_fan_and_thermal_cooling_behavior: 20 minutes from T_INITIAL with the
\* fan at 0, the reference 100 and a disturbance of 5500 W
InitOpenLoop ==
  /\ parameters = ShippedParameters
  /\ heap = <<>>
  /\ runs = <<>>
  /\ probe = open_loop_call(parameters.T_INITIAL, 0 * FanUnit, 100 * FanUnit,
                            5500 * PowUnit,
                            TruncDiv(20 * 60 * TimeUnit, parameters.DT))

NextOpenLoop == open_loop_step

SpecOpenLoop == InitOpenLoop /\ [][NextOpenLoop]_vars

(***************************************************************************)
(* One SimulationHistory and a client that appends states to it.           *)
(***************************************************************************)
MaxAppends == 4   \* most calls of append by the client

\* the states the client appends: no two fields of a state are equal
HistoryStates ==
  { SimulationState(k * TimeUnit, (20 + k) * TempUnit, (10 * k + 5) * FanUnit,
                    (10 * k + 7) * FanUnit, (1000 * k + 900) * PowUnit,
                    (2500 + k) * PowUnit) : k \in 0 .. 2 }

\* history.append(state); `before` is the object as it was at the call and
\* n counts the calls
history_append(state) ==
  /\ probe.n < MaxAppends
  /\ probe' = [ history |-> append(probe.history, state),
                before  |-> probe.history,
                state   |-> Some(state),
                n       |-> probe.n + 1 ]
  /\ UNCHANGED <<parameters, heap, runs>>

InitHistory ==
  /\ parameters = ShippedParameters
  /\ heap = <<>>
  /\ runs = <<>>
  /\ probe = [ history |-> SimulationHistory, before |-> SimulationHistory,
               state |-> None, n |-> 0 ]

AppendState == \E state \in HistoryStates : history_append(state)

NextHistory == AppendState

SpecHistory == InitHistory /\ [][NextHistory]_vars

(***************************************************************************)
(* One controller called at one error for a series of humidities.          *)
(***************************************************************************)
AnyHumidityLevels ==
  << 0 * HumUnit, 20 * HumUnit, 35 * HumUnit, 50 * HumUnit, 65 * HumUnit,
     80 * HumUnit, 100 * HumUnit >>

\* errors from -10 to 2 in quarters of a degree, the two tenths below 1.5,
\* and an error below the universe
AnyHumidityErrors ==
  { k * (TempUnit \div 4) : k \in -40 .. 8 }
    \cup { 14 * (TempUnit \div 10), 145 * (TempUnit \div 100), -15 * TempUnit }

\* u = ctrl.compute_u_fuzzy(T_set + e, T_set, H) for the next H of the series
any_humidity_call ==
  /\ Len(probe.us) < Len(AnyHumidityLevels)
  /\ \E call \in { compute_u_fuzzy_call(probe.controller,
                                         24 * TempUnit + probe.error,
                                         24 * TempUnit,
                                         AnyHumidityLevels[Len(probe.us) + 1]) } :
       probe' = [probe EXCEPT !.controller = call.self,
                              !.raised = probe.raised \/ call.raised,
                              !.us = Append(probe.us, call.value)]
  /\ UNCHANGED <<parameters, heap, runs>>

InitAnyHumidity ==
  /\ parameters = ShippedParameters
  /\ heap = <<>>
  /\ runs = <<>>
  /\ probe \in { [controller |-> ErrorHumidityFuzzyController, error |-> e,
                  raised |-> FALSE, us |-> <<>>] : e \in AnyHumidityErrors }

NextAnyHumidity == any_humidity_call

SpecAnyHumidity == InitAnyHumidity /\ [][NextAnyHumidity]_vars

(***************************************************************************)
(* compute_u_fuzzy on a controller whose rule system is not the complete   *)
(* table: self._system holds the rules of _build_rules but one.  The       *)
(* shipped table always fires a rule; only on such a controller does the   *)
(* aggregated output set become identically zero.                          *)
(***************************************************************************)
\* self._system = ctrl.ControlSystem(rules) with the i-th rule left out
without_rule(controller, i) ==
  [controller EXCEPT !.rules =
     SubSeq(controller.rules, 1, i - 1)
       \o SubSeq(controller.rules, i + 1, Len(controller.rules))]

DegenerateErrors == { -6 * TempUnit, -2 * TempUnit, 0 * TempUnit, 2 * TempUnit,
                      4 * TempUnit, 8 * TempUnit }
DegenerateHumidity == { 0 * HumUnit, 50 * HumUnit, 100 * HumUnit }

\* u = controller.compute_u_fuzzy(T, T_set, humidity)
degenerate_call ==
  /\ ~probe.called
  /\ \E call \in { compute_u_fuzzy_call(probe.controller, probe.T, probe.T_set,
                                         probe.humidity) } :
       probe' = [probe EXCEPT
                   !.called = TRUE,
                   !.cut = compute_rules(probe.controller, probe.T - probe.T_set,
                                         probe.humidity),
                   !.raised = call.raised,
                   !.value = call.value]
  /\ UNCHANGED <<parameters, heap, runs>>

InitDegenerate ==
  /\ parameters = ShippedParameters
  /\ heap = <<>>
  /\ runs = <<>>
  /\ probe \in { [ controller |-> without_rule(ErrorHumidityFuzzyController, i),
                    T |-> 24 * TempUnit + e, T_set |-> 24 * TempUnit,
                    humidity |-> h,
                    called |-> FALSE, cut |-> None, raised |-> FALSE,
                    value |-> 0 ] :
                  i \in DOMAIN _build_rules, e \in DegenerateErrors,
                  h \in DegenerateHumidity }

NextDegenerate == degenerate_call

SpecDegenerate == InitDegenerate /\ [][NextDegenerate]_vars

(***************************************************************************)
(* app/ui/realtime_panel.py.  `probe` is st.session_state of one browser   *)
(* session: the sidebar keys of the dashboard, the value of the "Steps per *)
(* refresh" slider, and the rt_ keys (absent keys are FALSE, 0 or None).   *)
(* One run of the script renders the panel once, with at most one button   *)
(* pressed; st.rerun() ends the run.  `calls` counts the simulate_step     *)
(* calls since the last initialization, `ran` those of the last run of the *)
(* script, `resets` the initializations.                                   *)
(***************************************************************************)
MaxRtCalls == 7   \* most simulate_step calls after one initialization
MaxResets == 2    \* most initializations of the real-time simulation

\* the sidebar settings: <<T_initial, T_set, humidity, q_extra>>
RtConfigs ==
  { <<30 * TempUnit, 24 * TempUnit, 60 * HumUnit, 3000 * PowUnit>>,
    <<22 * TempUnit, 26 * TempUnit, 35 * HumUnit, 500 * PowUnit>> }
SliderInputs == { 1, 2, 5 }

Session(config) ==
  [ T_initial |-> config[1], T_set |-> config[2], humidity |-> config[3],
    q_extra |-> config[4],
    slider |-> 5,
    rt_initialized |-> FALSE, rt_state |-> 0, rt_history |-> None,
    rt_controller |-> None, rt_running |-> FALSE,
    rt_T_set |-> 0, rt_humidity |-> 0, rt_q_extra |-> 0,
    rt_steps_per_cycle |-> None,
    calls |-> 0, ran |-> 0, resets |-> 0, event |-> "", raised |-> FALSE ]

\* _ensure_rt_initialized() on loc = [session, heap]
_ensure_rt_initialized(loc) ==
  IF loc.session.rt_initialized THEN loc
  ELSE CHOOSE out \in
         { [ session |-> [loc.session EXCEPT
                            !.rt_state = made.ref,
                            !.rt_history = append(SimulationHistory,
                                                  made.heap[made.ref]),
                            !.rt_controller = ErrorHumidityFuzzyController,
                            !.rt_running = FALSE,
                            !.rt_T_set = loc.session.T_set,
                            !.rt_humidity = loc.session.humidity,
                            !.rt_q_extra = loc.session.q_extra,
                            !.rt_initialized = TRUE,
                            !.calls = 0,
                            !.resets = loc.session.resets + 1],
             heap    |-> made.heap ] :
           made \in { new(loc.heap,
                          SimulationState_initial(Some(loc.session.T_initial))) } } :
         TRUE

\* mutant: the initialization flag is not cleared, so nothing is rebuilt
_reset_rt_simulation_flag_kept(loc) ==
  _ensure_rt_initialized(loc)

\* _reset_rt_simulation()
_reset_rt_simulation(loc) ==
  _ensure_rt_initialized([loc EXCEPT !.session.rt_initialized = FALSE])

\* one pass of the loop of _run_rt_steps on its locals: state, history and
\* the heap; history is the object held in the session, so a pass that
\* raises leaves the entries appended before it
rt_iteration(loc) ==
  LET ss == loc.session
  IN  IF ss.raised THEN loc
      ELSE IF \/ defuzz_raises(ss.rt_controller,
                               loc.heap[loc.state].temperature - ss.rt_T_set,
                               ss.rt_humidity)
              \/ update_temperature_raises
        THEN [loc EXCEPT !.session.raised = TRUE]
      ELSE CHOOSE out \in
             { [ loc EXCEPT
                   !.state = made.ref,
                   !.heap = made.heap,
                   !.session.rt_history = append(ss.rt_history,
                                                 made.heap[made.ref]),
                   !.session.calls = ss.calls + 1,
                   !.session.ran = ss.ran + 1 ] :
               made \in { simulate_step(loc.heap, loc.state, ss.rt_controller,
                                        ss.rt_T_set, ss.rt_humidity,
                                        ss.rt_q_extra) } } : TRUE

RECURSIVE rt_loop(_, _)
rt_loop(loc, n) ==
  IF n <= 0 THEN loc
  ELSE CHOOSE out \in
         { rt_loop(next, n - 1) : next \in { rt_iteration(loc) } } : TRUE

\* mutant: the state reached is not stored back in the session
_run_rt_steps_no_store(loc, n_steps) ==
  IF loc.session.raised THEN loc
  ELSE CHOOSE out \in
         { [ session |-> done.session, heap |-> done.heap ] :
           done \in { rt_loop([ session |-> loc.session, heap |-> loc.heap,
                                state |-> loc.session.rt_state ], n_steps) } } :
         TRUE

\* _run_rt_steps(n_steps)
_run_rt_steps(loc, n_steps) ==
  IF loc.session.raised THEN loc
  ELSE CHOOSE out \in
         { [ session |-> IF done.session.raised THEN done.session
                         ELSE [done.session EXCEPT !.rt_state = done.state],
             heap    |-> done.heap ] :
           done \in { rt_loop([ session |-> loc.session, heap |-> loc.heap,
                                state |-> loc.session.rt_state ], n_steps) } } :
         TRUE

\* lines 117-142 of render_realtime_panel, when Reset and Start were not
\* taken: Pause, Step and the slider
rt_controls(loc, event) ==
  CHOOSE out \in
    { IF stepped.session.raised THEN stepped
      ELSE [stepped EXCEPT
              !.session.rt_steps_per_cycle = Some(stepped.session.slider)] :
      stepped \in
        { IF event = "Step" THEN _run_rt_steps(paused, 1) ELSE paused :
          paused \in
            { IF loc.session.rt_running /\ event = "Pause"
                THEN [loc EXCEPT !.session.rt_running = FALSE]
                ELSE loc } } } : TRUE

\* lines 196-200: if running, advance the simulation and rerun
rt_advance(loc) ==
  IF ~loc.session.raised /\ loc.session.rt_running
    THEN _run_rt_steps(loc, IF loc.session.rt_steps_per_cycle = None THEN 5
                            ELSE loc.session.rt_steps_per_cycle[1])
    ELSE loc

\* render_realtime_panel() in a run of the script in which the button
\* `event` is pressed ("" for none)
render_realtime_panel(session, h, event) ==
  CHOOSE out \in
    { IF event = "Reset" THEN _reset_rt_simulation(loc)
      ELSE IF ~loc.session.rt_running /\ event = "Start"
        THEN _run_rt_steps([loc EXCEPT !.session.rt_running = TRUE], 5)
      ELSE CHOOSE done \in
             { rt_advance(shown) : shown \in { rt_controls(loc, event) } } : TRUE :
      loc \in { _ensure_rt_initialized(
                  [ session |-> [session EXCEPT !.event = event, !.ran = 0,
                                                !.raised = FALSE],
                    heap    |-> h ]) } } : TRUE

\* the objects no name refers to any more are freed when the script ends:
\* the heap keeps the states the frames of `rs` and the session hold, in the
\* order of their creation, and the references follow
release(session, rs, h) ==
  LET live == ({ rs[r].state : r \in DOMAIN rs } \cup { session.rt_state }) \ {0}
      rank(x) == Cardinality({ y \in live : y <= x })
  IN  [ session |-> [session EXCEPT !.rt_state = rank(session.rt_state)],
        runs    |-> [r \in DOMAIN rs |-> [rs[r] EXCEPT !.state = rank(rs[r].state)]],
        heap    |-> [k \in 1 .. Cardinality(live) |->
                       h[CHOOSE x \in live : rank(x) = k]] ]

\* a run of the script: the session and the heap after it; the script is
\* sequential, so a pending call of run_simulation is made before the panel
\* is rendered
script_run(session, event) ==
  /\ \A r \in DOMAIN runs : runs[r].pc /= "call"
  /\ \E out \in { render_realtime_panel(session, heap, event) } :
     /\ out.session.calls <= MaxRtCalls
     /\ out.session.resets <= MaxResets
     /\ \E kept \in { release(out.session, runs, out.heap) } :
          /\ probe' = kept.session
          /\ heap' = kept.heap
          /\ runs' = kept.runs
     /\ UNCHANGED parameters

Refresh == script_run(probe, "")
PressReset == script_run(probe, "Reset")
PressStart == ~probe.rt_running /\ script_run(probe, "Start")
PressPause == probe.rt_running /\ script_run(probe, "Pause")
PressStep == script_run(probe, "Step")
MoveSlider ==
  \E v \in SliderInputs \ {probe.slider} :
     script_run([probe EXCEPT !.slider = v], "")
MoveSidebar ==
  \E config \in RtConfigs :
     /\ <<probe.T_initial, probe.T_set, probe.humidity, probe.q_extra>> /= config
     /\ script_run([probe EXCEPT !.T_initial = config[1], !.T_set = config[2],
                                 !.humidity = config[3], !.q_extra = config[4]],
                   "")

InitRealtime ==
  /\ parameters = ShippedParameters
  /\ heap = <<>>
  /\ runs = <<>>
  /\ probe \in { Session(config) : config \in RtConfigs }

NextRealtime ==
  \/ Refresh
  \/ PressReset
  \/ PressStart
  \/ PressPause
  \/ PressStep
  \/ MoveSlider
  \/ MoveSidebar

SpecRealtime == InitRealtime /\ [][NextRealtime]_vars

(***************************************************************************)
(* One call of run_simulation next to a real-time session with the same    *)
(* settings: the batch runs k steps in one call, the session is driven by  *)
(* its buttons in groups of 1, 5 or the slider's number of steps, without  *)
(* a reset.                                                                *)
(***************************************************************************)
InitBatch ==
  /\ parameters = ShippedParameters
  /\ heap = <<>>
  /\ \E config \in RtConfigs, k \in { 0, MaxRtCalls - 1, MaxRtCalls } :
        /\ probe = Session(config)
        /\ runs = << Frame("call", k * parameters.DT, config[2], config[3],
                           config[4], Some(config[1])) >>

NextBatch ==
  \/ Run
  \/ Refresh
  \/ PressStart
  \/ PressPause
  \/ PressStep
  \/ MoveSlider

SpecBatch == InitBatch /\ [][NextBatch]_vars

(***************************************************************************)
(* The membership evaluation of inference at one crisp value of a fuzzy    *)
(* variable: an antecedent is fuzzified at its (clipped) input, the        *)
(* consequent's terms are read at a point of the output universe.  The     *)
(* values lie on a grid of a twentieth of a degree, half a percent, with   *)
(* some inputs beyond the universes of the antecedents.                    *)
(***************************************************************************)
FuzzVariables ==
  [ error    |-> [var |-> create_error_antecedent, terms |-> ErrorTerms,
                  grid |-> E(5), from |-> E(-1100), to |-> E(1100)],
    humidity |-> [var |-> create_humidity_antecedent, terms |-> HumidityTerms,
                  grid |-> HumUnit \div 2, from |-> -10 * HumUnit,
                  to |-> 110 * HumUnit],
    fan      |-> [var |-> create_fan_consequent, terms |-> FanTerms,
                  grid |-> FanUnit \div 2, from |-> 0 * FanUnit,
                  to |-> 100 * FanUnit] ]

\* the degrees of all terms of the variable at the crisp value x
fuzz_call ==
  /\ probe.mu = None
  /\ LET fv == FuzzVariables[probe.label]
     IN  probe' = [probe EXCEPT !.mu = Some(
           IF probe.label = "fan"
             THEN [t \in DOMAIN fv.var.mf |->
                     interp_membership(fv.var, fv.var.mf[t], probe.x * fv.var.fine)]
             ELSE fuzz(fv.var, clip_to_bounds(fv.var, probe.x * fv.var.fine)))]
  /\ UNCHANGED <<parameters, heap, runs>>

InitFuzz ==
  /\ parameters = ShippedParameters
  /\ heap = <<>>
  /\ runs = <<>>
  /\ probe \in { [label |-> l, x |-> FuzzVariables[l].from + k * FuzzVariables[l].grid,
                  mu |-> None] :
                  l \in DOMAIN FuzzVariables,
                  k \in 0 .. (2200 \div 5) }
  /\ probe.x <= FuzzVariables[probe.label].to

NextFuzz == fuzz_call

SpecFuzz == InitFuzz /\ [][NextFuzz]_vars

(***************************************************************************)
(* One controller swept over the error universe at a fixed humidity, as    *)
(* the controller tests call it: T = T_set + e for e = -10, -9.75, ..., 10. *)
(***************************************************************************)
SweepStep == TempUnit \div 4
SweepLo == -10 * TempUnit
SweepHi == 10 * TempUnit
SweepHumidity == { 0 * HumUnit, 30 * HumUnit, 40 * HumUnit, 50 * HumUnit,
                   65 * HumUnit, 80 * HumUnit, 100 * HumUnit }
SweepTSet == 24 * TempUnit

\* u = ctrl.compute_u_fuzzy(T_set + e, T_set, humidity), for the next e
sweep_call ==
  /\ probe.error + SweepStep <= SweepHi \/ probe.us = <<>>
  /\ LET e    == IF probe.us = <<>> THEN SweepLo ELSE probe.error + SweepStep
         call == compute_u_fuzzy_call(probe.controller, SweepTSet + e, SweepTSet,
                                      probe.humidity)
     IN  probe' = [probe EXCEPT !.controller = call.self,
                               !.error = e,
                               !.raised = call.raised,
                               !.cut = compute_rules(probe.controller, e,
                                                     probe.humidity),
                               !.us = Append(probe.us, call.value)]
  /\ UNCHANGED <<parameters, heap, runs>>

InitSweep ==
  /\ parameters = ShippedParameters
  /\ heap = <<>>
  /\ runs = <<>>
  /\ probe \in { [controller |-> ErrorHumidityFuzzyController, humidity |-> h,
                  error |-> SweepLo, raised |-> FALSE, cut |-> None, us |-> <<>>] :
                  h \in SweepHumidity }

NextSweep == sweep_call

SpecSweep == InitSweep /\ [][NextSweep]_vars

(***************************************************************************)
(* One controller called at a fixed positive error with one humidity after *)
(* the other, as the humidity tests call it.                               *)
(***************************************************************************)
HumidityLevels ==
  << 0 * HumUnit, 30 * HumUnit, 40 * HumUnit, 50 * HumUnit, 70 * HumUnit,
     80 * HumUnit, 100 * HumUnit >>
HumidityErrors == { k * SweepStep : k \in 1 .. 48 }

\* u = ctrl.compute_u_fuzzy(T_set + e, T_set, H) for the next humidity H
humidity_call ==
  /\ Len(probe.us) < Len(HumidityLevels)
  /\ LET H    == HumidityLevels[Len(probe.us) + 1]
         call == compute_u_fuzzy_call(probe.controller, SweepTSet + probe.error,
                                      SweepTSet, H)
     IN  probe' = [probe EXCEPT !.controller = call.self,
                               !.humidity = H,
                               !.raised = probe.raised \/ call.raised,
                               !.us = Append(probe.us, call.value)]
  /\ UNCHANGED <<parameters, heap, runs>>

InitHumidity ==
  /\ parameters = ShippedParameters
  /\ heap = <<>>
  /\ runs = <<>>
  /\ probe \in { [controller |-> ErrorHumidityFuzzyController, humidity |-> 0,
                  error |-> e, raised |-> FALSE, us |-> <<>>] :
                  e \in HumidityErrors }

NextHumidity == humidity_call

SpecHumidity == InitHumidity /\ [][NextHumidity]_vars

(***************************************************************************)
(* One controller object called again and again with arbitrary inputs,     *)
(* inside and outside the universes of its antecedents.                    *)
(***************************************************************************)
MaxCtrlCalls == 3   \* calls of compute_u_fuzzy on the reused controller

CallT == { 4 * TempUnit, 14 * TempUnit, 20 * TempUnit + SweepStep, 24 * TempUnit,
           27 * TempUnit + 3 * SweepStep, 30 * TempUnit, 34 * TempUnit,
           44 * TempUnit }
CallHumidity == { -20 * HumUnit, 0 * HumUnit, 50 * HumUnit, 100 * HumUnit,
                  130 * HumUnit }

\* u = controller.compute_u_fuzzy(T, T_set, humidity)
ctrl_call ==
  /\ probe.n < MaxCtrlCalls
  /\ \E T \in CallT, H \in CallHumidity :
        LET call == compute_u_fuzzy_call(probe.controller, T, SweepTSet, H)
        IN  probe' = [probe EXCEPT !.controller = call.self,
                                  !.T = T,
                                  !.T_set = SweepTSet,
                                  !.humidity = H,
                                  !.raised = call.raised,
                                  !.value = call.value,
                                  !.n = probe.n + 1]
  /\ UNCHANGED <<parameters, heap, runs>>

InitCalls ==
  /\ parameters = ShippedParameters
  /\ heap = <<>>
  /\ runs = <<>>
  /\ probe = [controller |-> ErrorHumidityFuzzyController, T |-> 0, T_set |-> 0,
              humidity |-> 0, raised |-> FALSE, value |-> 0, n |-> 0]

NextCalls == ctrl_call

SpecCalls == InitCalls /\ [][NextCalls]_vars

(***************************************************************************)
(* The rule base evaluated over the declared input space: every error of   *)
(* [-10, 10] on a grid of a tenth of a degree and every humidity of        *)
(* [0, 100] on a grid of five percent.                                     *)
(***************************************************************************)
RuleErrors == { k * (TempUnit \div 10) : k \in -100 .. 100 }
RuleHumidity == { k * 5 * HumUnit : k \in 0 .. 20 }

\* sim.compute(), up to the firing strengths of the rules
rules_call ==
  /\ probe.strength = None
  /\ probe' = [probe EXCEPT !.strength =
                  rule_strengths(probe.controller, probe.error, probe.humidity)]
  /\ UNCHANGED <<parameters, heap, runs>>

InitRules ==
  /\ parameters = ShippedParameters
  /\ heap = <<>>
  /\ runs = <<>>
  /\ probe \in { [controller |-> ErrorHumidityFuzzyController, error |-> e,
                  humidity |-> h, strength |-> None] :
                  e \in RuleErrors, h \in RuleHumidity }

NextRules == rules_call

SpecRules == InitRules /\ [][NextRules]_vars

(***************************************************************************)
(* Properties                                                              *)
(***************************************************************************)
Stepped(r) == runs'[r].i = runs[r].i + 1 /\ Len(heap') = Len(heap) + 1

\* C1: simulate_step returns a state n with n.fuzzy_output computed from the
\* previous temperature, n.fan_speed = update_fan_speed(s.fan_speed,
\* n.fuzzy_output), n.q_cool computed from the new fan speed, n.q_dist =
\* Q_BASE + q_extra, n.temperature = s.temperature + (DT/C_THERMAL) *
\* (n.q_dist - n.q_cool) and n.time = s.time + DT.
C1_StepContract ==
  [][ \A r \in DOMAIN runs :
        Stepped(r) =>
          LET s == heap[runs[r].state]
              n == heap'[runs'[r].state]
          IN  /\ n.fuzzy_output = compute_u_fuzzy(runs[r].controller, s.temperature,
                                                  runs'[r].T_set, runs'[r].humidity)
              /\ n.fan_speed = update_fan_speed(s.fan_speed, n.fuzzy_output)
              /\ n.q_cool = compute_cooling_power(n.fan_speed)
              /\ n.q_dist = parameters.Q_BASE + runs'[r].q_extra
              /\ n.temperature =
                   s.temperature
                     + RoundDiv((n.q_dist - n.q_cool) * DT * (TempUnit \div C_THERMAL),
                                TimeUnit * PowUnit)
              /\ n.time = s.time + DT ]_vars

\* a second step has run: the fan already turns, so the cooling power of the
\* new fan speed differs from the one of the previous fan speed
C1_Witness ==
  \E r \in DOMAIN runs :
     /\ runs[r].i = 2
     /\ heap[2].fan_speed > 0
     /\ heap[3].fan_speed > heap[2].fan_speed
     /\ heap[3].q_cool = compute_cooling_power(heap[3].fan_speed)
     /\ heap[3].q_cool /= compute_cooling_power(heap[2].fan_speed)

Returned(r) == runs[r].pc = "done"

\* C2 as stated: for every duration, negative ones included, the returned
\* history has exactly floor(duration_s/DT) + 1 entries.
C2_Original ==
  \A r \in DOMAIN runs :
     Returned(r) =>
       Len(runs[r].history.time) = (runs[r].duration_s \div DT) + 1

\* C2: the returned history has exactly max(0, floor(duration_s/DT)) + 1
\* entries: the initial snapshot and one entry per executed step; a negative
\* duration executes no step.
C2_HistoryLength ==
  \A r \in DOMAIN runs :
     Returned(r) =>
       /\ Len(runs[r].history.time) = Max2(0, runs[r].duration_s \div DT) + 1
       /\ Len(runs[r].history.time) = runs[r].i + 1

\* a run of 2.5 s has returned with three entries
C2_Witness ==
  \E r \in DOMAIN runs :
     /\ Returned(r)
     /\ runs[r].duration_s = 2 * DT + DT \div 2
     /\ Len(runs[r].history.time) = 3

\* C3: in every state reachable from SimulationState.initial by simulate_step
\* calls with inputs that vary from call to call, fan_speed and fuzzy_output
\* are in [0,100] and q_cool is in [0, Q_MAX].
C3_Ranges ==
  \A o \in DOMAIN heap :
     /\ 0 <= heap[o].fan_speed /\ heap[o].fan_speed <= 100 * FanUnit
     /\ 0 <= heap[o].fuzzy_output /\ heap[o].fuzzy_output <= 100 * FanUnit
     /\ 0 <= heap[o].q_cool /\ heap[o].q_cool <= Q_MAX

\* after a call with the error and the humidity outside their universes the
\* fan falls back toward a low reference
C3_Witness ==
  \E r \in DOMAIN runs :
     /\ runs[r].i >= 2
     /\ runs[r].humidity < 0
     /\ heap[runs[r].state].fuzzy_output < heap[runs[r].state].fan_speed
     /\ heap[runs[r].state].fan_speed > 0

\* C4: SimulationState.initial(T0) has time, fan_speed, fuzzy_output and
\* q_cool 0, q_dist = Q_BASE + Q_EXTRA_DEFAULT whatever q_extra the run is
\* given, and temperature T0, or T_INITIAL when T0 is None.
C4_Initial ==
  \A r \in DOMAIN runs :
     runs[r].pc /= "call" =>
       /\ heap[1].time = 0
       /\ heap[1].fan_speed = 0
       /\ heap[1].fuzzy_output = 0
       /\ heap[1].q_cool = 0
       /\ heap[1].q_dist = parameters.Q_BASE + parameters.Q_EXTRA_DEFAULT
       /\ runs[r].T0 = None => heap[1].temperature = parameters.T_INITIAL
       /\ runs[r].T0 /= None => heap[1].temperature = runs[r].T0[1]
       /\ runs[r].history.q_dist[1] = parameters.Q_BASE + parameters.Q_EXTRA_DEFAULT
       /\ runs[r].history.temperature[1] = heap[1].temperature

\* a run given T0 = 0 and q_extra = 3000 W has made its initial state
C4_Witness ==
  \E r \in DOMAIN runs :
     /\ runs[r].pc = "loop"
     /\ runs[r].T0 = Some(0)
     /\ runs[r].q_extra = 3000 * PowUnit
     /\ heap[1].temperature = 0
     /\ heap[1].q_dist = 2500 * PowUnit

\* C5: simulate_step has no effect beyond its return value: every existing
\* state object keeps its fields, the controller and every history are
\* unchanged, and the result is a new object distinct from the input.
C5_StepFrame ==
  [][ \A r \in DOMAIN runs :
        (runs[r].pc = "loop" /\ runs'[r].pc = "append") =>
          /\ \A o \in DOMAIN heap : heap'[o] = heap[o]
          /\ runs'[r].state \notin DOMAIN heap
          /\ runs'[r].state \in DOMAIN heap'
          /\ runs'[r].state /= runs[r].state
          /\ runs'[r].controller = runs[r].controller
          /\ runs'[r].controller = ErrorHumidityFuzzyController
          /\ \A q \in DOMAIN runs : runs'[q].history = runs[q].history ]_vars

\* the second step of a run has returned and is not yet recorded
C5_Witness ==
  \E r \in DOMAIN runs :
     /\ runs[r].pc = "append"
     /\ runs[r].i = 1
     /\ Len(heap) = 3
     /\ Len(runs[r].history.time) = 2
     /\ heap[3] /= heap[2]

SameInputs(a, b) ==
  /\ runs[a].duration_s = runs[b].duration_s
  /\ runs[a].T_set = runs[b].T_set
  /\ runs[a].humidity = runs[b].humidity
  /\ runs[a].q_extra = runs[b].q_extra
  /\ runs[a].T0 = runs[b].T0

\* C6: two runs of run_simulation with identical inputs and configuration
\* return equal final states and equal histories, however their steps
\* interleave.
C6_Deterministic ==
  \A a, b \in DOMAIN runs :
     (Returned(a) /\ Returned(b) /\ SameInputs(a, b)) =>
       /\ heap[runs[a].state] = heap[runs[b].state]
       /\ runs[a].history = runs[b].history

\* two runs of 2 s with the same inputs have both returned
C6_Witness ==
  /\ DOMAIN runs = {1, 2}
  /\ Returned(1) /\ Returned(2) /\ SameInputs(1, 2)
  /\ runs[1].duration_s = 2 * DT
  /\ Len(runs[2].history.time) = 3
  /\ runs[1].state /= runs[2].state

Clamp100(u) == Max2(0, Min2(100 * FanUnit, u))

\* C7: update_fan_speed(u_prev, u_ref) = clamp(u_prev + alpha*(u_ref -
\* u_prev), 0, 100) with alpha = DT/TAU_FAN when TAU_FAN > 0 and 1
\* otherwise; with TAU_FAN = 0 the result is clamp(u_ref, 0, 100); the
\* result is in [0,100] for every pair of inputs.
C7_FanUpdate ==
  probe.u_prev /= None =>
    /\ TAU_FAN > 0 =>
         probe.u_fan = Clamp100(probe.u_prev[1]
                         + RoundDiv((probe.u_ref - probe.u_prev[1]) * DT, TAU_FAN))
    /\ TAU_FAN <= 0 =>
         probe.u_fan = Clamp100(probe.u_prev[1] + (probe.u_ref - probe.u_prev[1]))
    /\ TAU_FAN = 0 => probe.u_fan = Clamp100(probe.u_ref)
    /\ 0 <= probe.u_fan /\ probe.u_fan <= 100 * FanUnit

\* one call with TAU_FAN = 0 from -50 toward the reference 150
C7_Witness ==
  /\ TAU_FAN = 0
  /\ probe.n = 1
  /\ probe.u_prev = Some(-50 * FanUnit)
  /\ probe.u_ref = 150 * FanUnit
  /\ probe.u_fan = 100 * FanUnit

\* C8: from fan command 0, TAU_FAN/DT calls of update_fan_speed with the
\* reference 100 leave the fan command in [60, 75].
C8_StepResponse ==
  ( /\ TAU_FAN = ShippedParameters.TAU_FAN
    /\ probe.u_start = 0
    /\ probe.u_ref = 100 * FanUnit
    /\ probe.n = TAU_FAN \div DT ) =>
      (60 * FanUnit <= probe.u_fan /\ probe.u_fan <= 75 * FanUnit)

\* the tenth call from 0 toward 100 has returned about 65 %
C8_Witness ==
  /\ TAU_FAN = 10 * TimeUnit
  /\ probe.u_start = 0
  /\ probe.u_ref = 100 * FanUnit
  /\ probe.n = 10
  /\ probe.u_fan > 65 * FanUnit
  /\ probe.u_fan < 66 * FanUnit

\* the resolution of the fixed-point fan update: half a quantum per alpha
FanTol == ShippedParameters.TAU_FAN \div (2 * ShippedParameters.DT)

\* C9 as stated: from any start and for any constant reference, references
\* outside [0,100] included, the fan command converges to u_ref.
C9_Original == <>[](Abs(probe.u_fan - probe.u_ref) <= FanTol)

\* C9: repeated update_fan_speed calls with a constant reference converge to
\* clamp(u_ref, 0, 100): the distance to it eventually stays within the
\* resolution of the arithmetic.
C9_Converges == <>[](Abs(probe.u_fan - Clamp100(probe.u_ref)) <= FanTol)

\* from 0 the fan has settled at 100 under the reference 150, and from 150 it
\* would settle near 62.5 by steps of a tenth of the distance
C9_Witness ==
  /\ TAU_FAN > 0
  /\ probe.u_start = 0
  /\ probe.u_ref = 150 * FanUnit
  /\ probe.u_fan = 100 * FanUnit
  /\ probe.u_prev = Some(100 * FanUnit)

\* C10: compute_cooling_power(u) = Q_MAX * clamp(u, 0, 100) / 100: 0 at 0,
\* half of Q_MAX at 50, Q_MAX at 100 and at 150, never negative and never
\* above Q_MAX.
C10_CoolingPower ==
  probe.q_in /= None =>
    /\ probe.q_cool = RoundDiv(Q_MAX * Clamp100(probe.q_in[1]), 100 * FanUnit)
    /\ 0 <= probe.q_cool /\ probe.q_cool <= Q_MAX
    /\ probe.q_in[1] <= 0 => probe.q_cool = 0
    /\ probe.q_in[1] = 50 * FanUnit => 2 * probe.q_cool = Q_MAX
    /\ probe.q_in[1] >= 100 * FanUnit => probe.q_cool = Q_MAX

\* the cooling power of the fan command 150 is Q_MAX
C10_Witness ==
  /\ probe.q_in = Some(150 * FanUnit)
  /\ probe.q_cool = 18000 * PowUnit

\* C11: for constant Q_dist and Q_cool, n calls of update_temperature from T_0
\* give T_n = T_0 + n*DT*(Q_dist - Q_cool)/C_THERMAL for every n >= 0, with no
\* clamping of the temperature; with Q_dist = Q_cool the temperature stays T_0.
C11_Linear ==
  /\ probe.T - probe.T_0
       = RoundDiv(probe.n * DT * (probe.Q_dist - probe.Q_cool)
                    * (TempUnit \div C_THERMAL),
                  TimeUnit * PowUnit)
  /\ (probe.Q_dist = probe.Q_cool) => probe.T = probe.T_0

\* the plant cooled from 0 degrees by six net-cooling steps to below zero
C11_Witness ==
  /\ probe.n = MaxThermal
  /\ probe.T_0 = 0
  /\ probe.Q_dist < probe.Q_cool
  /\ probe.T < 0
\* C12: for every term of the error, humidity and fan variables and every
\* crisp input x the membership degree used by inference is in [0,1], and it
\* is exactly 1 when x is the term's peak b, the peaks off the sampled
\* universe included (NS at -3.75, PS at 3.75, fan Medium at 57.5).
C12_Original ==
  probe.mu /= None =>
    \A t \in DOMAIN probe.mu[1] :
       /\ 0 <= probe.mu[1][t] /\ probe.mu[1][t] <= MuUnit
       /\ probe.x = FuzzVariables[probe.label].terms[t][2] => probe.mu[1][t] = MuUnit

\* the error of the i-th call of the sweep, and the i-th value for an error
SweepError(i) == SweepLo + (i - 1) * SweepStep
SweepIndex(e) == (e - SweepLo) \div SweepStep + 1

MonotoneTol == 5 * FanUnit

Dominant(H) ==
  LET mu == fuzz(create_humidity_antecedent, H)
      top == { t \in DOMAIN mu : \A o \in DOMAIN mu \ {t} : mu[t] > mu[o] }
  IN  IF top = {} THEN "" ELSE CHOOSE t \in top : TRUE

\* the reference returned for humidity H in the calls made so far
AtHumidity(H) ==
  probe.us[CHOOSE i \in DOMAIN HumidityLevels : HumidityLevels[i] = H]

\* PS or PL fires at the error of the calls
HotFires ==
  LET mu == fuzz(create_error_antecedent,
                 clip_to_bounds(create_error_antecedent, probe.error))
  IN  mu.PS > 0 \/ mu.PL > 0

HumidityDone == Len(probe.us) = Len(HumidityLevels)

\* C14 as stated: for every positive error u(e, humid) >= u(e, ideal) >=
\* u(e, dry) for humidities at which the named term dominates, and humidity 80
\* gives strictly more than humidity 30 wherever PS or PL fires.
C14_Original ==
  HumidityDone =>
    /\ \A i, j \in DOMAIN HumidityLevels :
          ( \/ Dominant(HumidityLevels[i]) = "Dry"
                 /\ Dominant(HumidityLevels[j]) = "Ideal"
            \/ Dominant(HumidityLevels[i]) = "Ideal"
                 /\ Dominant(HumidityLevels[j]) = "Humid" )
          => probe.us[i] <= probe.us[j]
    /\ HotFires => AtHumidity(80 * HumUnit) > AtHumidity(30 * HumUnit)

\* C14: for every positive error the reference is ordered at the peaks of
\* the humidity terms, u(e, 100) >= u(e, 50) >= u(e, 0), and humidity 80 gives
\* strictly more than humidity 30 wherever PS or PL fires.
C14_HumidityOrder ==
  HumidityDone =>
    /\ ~probe.raised
    /\ AtHumidity(100 * HumUnit) >= AtHumidity(50 * HumUnit)
    /\ AtHumidity(50 * HumUnit) >= AtHumidity(0 * HumUnit)
    /\ HotFires => AtHumidity(80 * HumUnit) > AtHumidity(30 * HumUnit)

\* at error 8 all humidities were called; humidity 80 gave less than 50
C14_Witness ==
  /\ HumidityDone
  /\ probe.error = 8 * TempUnit
  /\ HotFires
  /\ AtHumidity(100 * HumUnit) > AtHumidity(0 * HumUnit)
  /\ AtHumidity(80 * HumUnit) < AtHumidity(50 * HumUnit)
\* the degrees inference uses for the inputs of the last call
UsedDegrees ==
  [ error    |-> fuzz(create_error_antecedent,
                      clip_to_bounds(create_error_antecedent,
                                     probe.T - probe.T_set)),
    humidity |-> fuzz(create_humidity_antecedent,
                      clip_to_bounds(create_humidity_antecedent, probe.humidity)) ]

ErrorOutside == Abs(probe.T - probe.T_set) > 10 * TempUnit
HumidityOutside == probe.humidity < 0 \/ probe.humidity > 100 * HumUnit

\* C15 as stated: compute_u_fuzzy never raises, whatever the inputs, takes
\* the membership of an input beyond the universe bounds as degree 0, and
\* returns a value in [0,100].
C15_Original ==
  probe.n > 0 =>
    /\ ~probe.raised
    /\ 0 <= probe.value /\ probe.value <= 100 * FanUnit
    /\ ErrorOutside => \A t \in DOMAIN UsedDegrees.error : UsedDegrees.error[t] = 0
    /\ HumidityOutside =>
          \A t \in DOMAIN UsedDegrees.humidity : UsedDegrees.humidity[t] = 0

\* C15: compute_u_fuzzy never raises, whatever the inputs, returns a value in
\* [0,100], and evaluates an input beyond the universe bounds as the nearest
\* bound: the result is the one for the error clamped to [-10,10] and the
\* humidity clamped to [0,100].
C15_Clipped ==
  probe.n > 0 =>
    /\ ~probe.raised
    /\ 0 <= probe.value /\ probe.value <= 100 * FanUnit
    /\ probe.value
         = compute_u_fuzzy(ErrorHumidityFuzzyController,
                           probe.T_set + Max2(-10 * TempUnit,
                                              Min2(10 * TempUnit,
                                                   probe.T - probe.T_set)),
                           probe.T_set,
                           Max2(0, Min2(100 * HumUnit, probe.humidity)))

\* a call with error 20 and humidity 130 returned a reference of the High
\* term: PL and Humid were evaluated at the bounds
C15_Witness ==
  /\ probe.n > 0
  /\ ErrorOutside /\ HumidityOutside
  /\ probe.T - probe.T_set = 20 * TempUnit
  /\ probe.humidity = 130 * HumUnit
  /\ ~probe.raised
  /\ probe.value > 85 * FanUnit
\* C16: for every error in [-10,10] and every humidity in [0,100] at least
\* one of the seven rules has a firing strength above zero, so the aggregated
\* output set is never identically zero.
C16_Covered ==
  probe.strength /= None =>
    /\ Len(probe.strength) = 7
    /\ \E i \in DOMAIN probe.strength : probe.strength[i] > 0
    /\ ~defuzz_raises(probe.controller, probe.error, probe.humidity)

\* at error 0 and humidity 50 the rule for ZE is the only one that fires
C16_Witness ==
  /\ probe.strength /= None
  /\ probe.error = 0
  /\ probe.humidity = 50 * HumUnit
  /\ probe.strength[6] = MuUnit
  /\ \A i \in DOMAIN probe.strength \ {6} : probe.strength[i] = 0
\* C17: the controller keeps no state between calls: every call on the
\* reused controller returns what a freshly constructed controller returns
\* for the same (T, T_set, humidity), whatever the earlier calls were, and
\* leaves the controller as constructed.
C17_Stateless ==
  probe.n > 0 =>
    /\ probe.controller = ErrorHumidityFuzzyController
    /\ probe.raised = defuzz_raises(ErrorHumidityFuzzyController,
                                    probe.T - probe.T_set, probe.humidity)
    /\ ~probe.raised =>
          probe.value = compute_u_fuzzy(ErrorHumidityFuzzyController, probe.T,
                                        probe.T_set, probe.humidity)

\* the third call on one controller, at 30 degrees and humidity 50
C17_Witness ==
  /\ probe.n = MaxCtrlCalls
  /\ probe.n >= 2
  /\ probe.T = 30 * TempUnit
  /\ probe.humidity = 50 * HumUnit
  /\ ~probe.raised
  /\ probe.value > 80 * FanUnit
\* the constants hold a value the configuration must not have
InvalidConfig ==
  parameters.C_THERMAL <= 0 \/ parameters.DT < 0 \/ parameters.Q_MAX < 0

\* C18: a non-positive C_THERMAL, a negative DT or a negative Q_MAX is
\* rejected at setup, before any simulation step runs: under such constants
\* no run enters simulate_step, so none of update_fan_speed,
\* compute_cooling_power and update_temperature is reached.
C18_Original ==
  InvalidConfig =>
    \A r \in DOMAIN runs :
       /\ runs[r].pc \notin {"append", "raised"}
       /\ runs[r].i = 0
\* C19: run_simulation with T0 = 30, T_set = 24, humidity = 60 and q_extra =
\* 3000 for 2700 s ends in a state whose temperature is strictly below 27,
\* within 3 degrees of the setpoint, and whose fan_speed is below 95.
C19_ScenarioA ==
  \A r \in DOMAIN runs :
     /\ runs[r].pc /= "raised"
     /\ ( /\ Returned(r)
          /\ runs[r].duration_s = 2700 * TimeUnit
          /\ runs[r].q_extra = 3000 * PowUnit ) =>
         LET final == heap[runs[r].state]
         IN  /\ final.time = 2700 * TimeUnit
             /\ final.temperature < 27 * TempUnit
             /\ Abs(final.temperature - runs[r].T_set) < 3 * TempUnit
             /\ final.fan_speed < 95 * FanUnit

\* the 2700 s run has returned with its 2701 entries, the fan having been
\* above 70 on the way
C19_Witness ==
  \E r \in DOMAIN runs :
     /\ Returned(r)
     /\ runs[r].q_extra = 3000 * PowUnit
     /\ Len(runs[r].history.time) = 2701
     /\ heap[runs[r].state].time = 2700 * TimeUnit
     /\ runs[r].history.fan_speed[20] > 70 * FanUnit

\* sum(seq[i..j])
RECURSIVE SeqSum(_, _, _)
SeqSum(seq, i, j) ==
  IF i > j THEN 0
  ELSE IF i = j THEN seq[i]
  ELSE LET mid == (i + j) \div 2
       IN  SeqSum(seq, i, mid) + SeqSum(seq, mid + 1, j)

\* sum(seq) / len(seq) as whole part, remainder and length
Mean(seq) ==
  [ whole |-> SeqSum(seq, 1, Len(seq)) \div Len(seq),
    rest  |-> SeqSum(seq, 1, Len(seq)) % Len(seq),
    len   |-> Len(seq) ]
MeanGreater(m, n) ==
  \/ m.whole > n.whole
  \/ m.whole = n.whole /\ m.rest * n.len > n.rest * m.len

\* C20: of two 1800 s runs with T0 = 30, T_set = 24 and humidity = 60, the
\* run with q_extra = 5000 ends at a strictly higher temperature and has a
\* strictly higher mean of history.fan_speed than the run with q_extra = 1000.
C20_ScenarioB ==
  /\ \A r \in DOMAIN runs : runs[r].pc /= "raised"
  /\ ( /\ Len(runs) = 2
       /\ Returned(1) /\ Returned(2)
       /\ runs[1].duration_s = 1800 * TimeUnit ) =>
        /\ runs[1].q_extra = 1000 * PowUnit /\ runs[2].q_extra = 5000 * PowUnit
        /\ runs[2].duration_s = 1800 * TimeUnit
        /\ heap[runs[2].state].temperature > heap[runs[1].state].temperature
        /\ MeanGreater(Mean(runs[2].history.fan_speed),
                       Mean(runs[1].history.fan_speed))

\* both 1800 s runs have returned, each with its 1801 entries, the light one
\* below the setpoint and the heavy one above it
C20_Witness ==
  /\ Len(runs) = 2
  /\ Returned(1) /\ Returned(2)
  /\ Len(runs[1].history.fan_speed) = 1801
  /\ Len(runs[2].history.fan_speed) = 1801
  /\ heap[runs[1].state].temperature < 24 * TempUnit
  /\ heap[runs[2].state].temperature > 24 * TempUnit
\* C21: where the room is colder than the setpoint by 2 degrees or more only
\* the rule for NS or NL fires, and for every humidity compute_u_fuzzy is
\* below 25; for an error of -5 or less it is below 15.
C21_ColdOff ==
  /\ ~probe.raised
  /\ (probe.us /= <<>> /\ probe.error <= -2 * TempUnit) =>
        /\ probe.cut.Off > 0
        /\ probe.cut.Low = 0 /\ probe.cut.Medium = 0 /\ probe.cut.High = 0
  /\ \A i \in DOMAIN probe.us :
        /\ SweepError(i) <= -2 * TempUnit => probe.us[i] < 25 * FanUnit
        /\ SweepError(i) <= -5 * TempUnit => probe.us[i] < 15 * FanUnit

\* the sweep at humidity 40 has passed the errors -6 and -2, the reference
\* being above 5 at both
C21_Witness ==
  /\ probe.humidity = 40 * HumUnit
  /\ Len(probe.us) >= SweepIndex(-2 * TempUnit)
  /\ probe.us[SweepIndex(-6 * TempUnit)] > 5 * FanUnit
  /\ probe.us[SweepIndex(-2 * TempUnit)] > 5 * FanUnit
\* C22: with the controller bypassed, from T_INITIAL and fan command 0, 1200
\* passes of update_fan_speed toward 100, compute_cooling_power and
\* update_temperature with Q_dist = 5500 end with the fan command above 90
\* and the temperature below T_INITIAL - 5; no pass lowers the fan command.
C22_OpenLoop ==
  /\ probe.u_prev /= None => probe.u_fan >= probe.u_prev[1]
  /\ probe.i = probe.steps =>
        /\ probe.steps = 1200
        /\ probe.u_fan > 90 * FanUnit
        /\ probe.T < probe.T0 - 5 * TempUnit

\* the 1200 passes are done: the fan has risen from 0 to near 100 and the
\* room has cooled from 30 degrees to below 20
C22_Witness ==
  /\ probe.i = 1200
  /\ probe.T0 = 30 * TempUnit
  /\ probe.u_prev /= None
  /\ probe.u_fan > 99 * FanUnit
  /\ probe.Q_cool > 17000 * PowUnit
  /\ probe.T < 20 * TempUnit
\* the six series of a SimulationHistory
Series == {"time", "temperature", "fan_speed", "fuzzy_output", "q_cool", "q_dist"}

\* C23: after any sequence of append calls the six lists of a
\* SimulationHistory have the same length, the number of appends; an append
\* adds to every list one element, the appended state's field of that name,
\* and leaves the earlier elements as they were.
C23_AppendOnly ==
  /\ DOMAIN probe.history = Series
  /\ \A f \in Series : Len(probe.history[f]) = probe.n
  /\ probe.state /= None =>
        \A f \in Series :
           /\ Len(probe.history[f]) = Len(probe.before[f]) + 1
           /\ probe.history[f][probe.n] = probe.state[1][f]
           /\ \A k \in DOMAIN probe.before[f] :
                 probe.history[f][k] = probe.before[f][k]

\* four appends, the last of a state other than the first: the fuzzy_output
\* series holds the fuzzy outputs 7 and 27, not the fan speeds
C23_Witness ==
  /\ probe.n = MaxAppends
  /\ probe.history.time[1] = 0
  /\ probe.history.fuzzy_output[1] = 7 * FanUnit
  /\ probe.history.fuzzy_output[MaxAppends] = 27 * FanUnit
  /\ probe.history.fan_speed[MaxAppends] = 25 * FanUnit
  /\ Len(probe.before.q_dist) = MaxAppends - 1
SameSettings(r) ==
  /\ probe.rt_initialized
  /\ probe.rt_history.temperature[1] = runs[r].T0[1]
  /\ probe.rt_T_set = runs[r].T_set
  /\ probe.rt_humidity = runs[r].humidity
  /\ probe.rt_q_extra = runs[r].q_extra

\* C26: n calls of simulate_step made one at a time from
\* SimulationState.initial(T0) with one controller and constant settings,
\* each result appended, give the state sequence and the history of
\* run_simulation(n*DT, ...) with the same settings, however the calls are
\* grouped: the step-by-step history is a prefix of the batch history and,
\* after n calls, equal to it, with the same final state.
C26_BatchEquivalence ==
  \A r \in DOMAIN runs :
     (Returned(r) /\ SameSettings(r) /\ probe.calls <= runs[r].n_steps) =>
        /\ ~probe.raised
        /\ \A f \in DOMAIN probe.rt_history :
              probe.rt_history[f]
                = SubSeq(runs[r].history[f], 1, probe.calls + 1)
        /\ probe.calls = runs[r].n_steps =>
              /\ probe.rt_history = runs[r].history
              /\ heap[probe.rt_state] = heap[runs[r].state]
              /\ probe.rt_state /= runs[r].state

\* a batch of 7 steps has returned and the session has made its 7 calls,
\* the last 5 of them in one group when Start was pressed
C26_Witness ==
  /\ Returned(1)
  /\ SameSettings(1)
  /\ runs[1].n_steps = MaxRtCalls
  /\ probe.calls = MaxRtCalls
  /\ probe.event = "Start"
  /\ probe.ran = 5
  /\ Len(probe.rt_history.time) = MaxRtCalls + 1
\* run_simulation called with the arguments of run r and nothing else
\* running: its frame at the return and its heap
Alone(r) ==
  run_simulation(Frame("call", runs[r].duration_s, runs[r].T_set,
                       runs[r].humidity, runs[r].q_extra, runs[r].T0), <<>>)

\* C27: when the steps of two runs, each with its own controller, state and
\* history, interleave in any order, the state sequence and the history of
\* each run are those of the run executed alone; the two runs hold
\* different state objects and an append to one history leaves the other as
\* it was.
C27_Independent ==
  /\ \A r \in DOMAIN runs :
        runs[r].pc \notin {"call", "raised"} =>
          \E alone \in { Alone(r) } :
             /\ \A f \in DOMAIN runs[r].history :
                   runs[r].history[f]
                     = SubSeq(alone.frame.history[f], 1, Len(runs[r].history[f]))
             /\ heap[runs[r].state]
                  = alone.heap[runs[r].i + (IF runs[r].pc = "append" THEN 2 ELSE 1)]
             /\ Returned(r) =>
                  /\ runs[r].history = alone.frame.history
                  /\ heap[runs[r].state] = alone.heap[alone.frame.state]
  /\ \A a, b \in DOMAIN runs :
        (a /= b /\ runs[a].state /= 0) => runs[a].state /= runs[b].state

\* two runs with different arguments have returned, the steps of the second
\* having been made between the steps of the first
C27_Witness ==
  /\ DOMAIN runs = {1, 2}
  /\ Returned(1) /\ Returned(2)
  /\ runs[1].duration_s = 2 * DT /\ runs[2].duration_s = 2 * DT
  /\ runs[1].T0 /= runs[2].T0
  /\ runs[1].history /= runs[2].history
  /\ heap[runs[1].state].time = 2 * DT
  /\ runs[1].state > runs[2].state
  /\ heap[runs[2].state - 1].time = 1 * DT
  /\ heap[runs[2].state - 2].time = 1 * DT
\* C28: in every state reached from SimulationState.initial by simulate_step
\* calls, the stored cooling power is that of the stored fan speed of the
\* same state, q_cool = Q_MAX * fan_speed / 100, not that of the fan speed
\* of the state before.
C28_CoolingConsistent ==
  \A k \in DOMAIN heap :
     /\ 100 * FanUnit * heap[k].q_cool - Q_MAX * heap[k].fan_speed
          <= 50 * FanUnit
     /\ Q_MAX * heap[k].fan_speed - 100 * FanUnit * heap[k].q_cool
          <= 50 * FanUnit

\* after three calls the fan is above its speed of the call before, and the
\* cooling power stored is above the power of that earlier speed
C28_Witness ==
  \E r \in DOMAIN runs :
     /\ runs[r].pc = "client"
     /\ runs[r].i = 3
     /\ Len(heap) = 4
     /\ heap[4].fan_speed > heap[3].fan_speed
     /\ heap[3].fan_speed > 0
     /\ 100 * FanUnit * heap[4].q_cool > Q_MAX * heap[3].fan_speed + 50 * FanUnit
\* the entry of index k (from 1) of a history, as a record of six fields
Entry(history, k) ==
  [ time         |-> history.time[k],
    temperature  |-> history.temperature[k],
    fan_speed    |-> history.fan_speed[k],
    fuzzy_output |-> history.fuzzy_output[k],
    q_cool       |-> history.q_cool[k],
    q_dist       |-> history.q_dist[k] ]

\* C29: for every run_simulation call the history is ordered in time, its
\* entry k (counted from 0) has time k*DT, every entry but the first has
\* q_dist = Q_BASE + q_extra, and the final state returned equals the last
\* entry in all six fields; for a run of zero steps it is the initial state.
C29_OrderedHistory ==
  \A r \in DOMAIN runs :
     Returned(r) =>
       LET history == runs[r].history
           n == Len(history.time)
       IN  /\ n >= 1
           /\ \A f \in {"temperature", "fan_speed", "fuzzy_output",
                         "q_cool", "q_dist"} : Len(history[f]) = n
           /\ \A k \in 1 .. n : history.time[k] = (k - 1) * parameters.DT
           /\ \A k \in 1 .. (n - 1) : history.time[k] < history.time[k + 1]
           /\ \A k \in 2 .. n :
                 history.q_dist[k] = parameters.Q_BASE + runs[r].q_extra
           /\ heap[runs[r].state] = Entry(history, n)
           /\ runs[r].n_steps <= 0 =>
                 /\ n = 1
                 /\ heap[runs[r].state] = SimulationState_initial(runs[r].T0)

\* a run of three steps with 3000 W of extra load has returned: the last
\* entry is at 3 s and differs from the first in temperature and q_dist
C29_Witness ==
  \E r \in DOMAIN runs :
     /\ Returned(r)
     /\ runs[r].n_steps = 3
     /\ runs[r].q_extra = 3000 * PowUnit
     /\ Len(runs[r].history.time) = 4
     /\ runs[r].history.time[4] = 3 * parameters.DT
     /\ runs[r].history.q_dist[1] /= runs[r].history.q_dist[4]
     /\ heap[runs[r].state].temperature /= runs[r].history.temperature[1]
\* the real-time session holds a history of calls + 1 entries whose last
\* entry is the stored state
RtConsistent ==
  probe.rt_initialized =>
    /\ ~probe.raised
    /\ Len(probe.rt_history.time) = probe.calls + 1
    /\ heap[probe.rt_state] = Entry(probe.rt_history, probe.calls + 1)
    /\ probe.event = "Reset" =>
          /\ Len(probe.rt_history.time) = 1
          /\ probe.rt_history.time[1] = 0
          /\ heap[probe.rt_state] =
                SimulationState_initial(Some(probe.T_initial))
          /\ ~probe.rt_running
          /\ probe.ran = 0

\* a run of the script with no button pressed, begun while rt_running is
\* False, makes no call of simulate_step and leaves the history as it was
RtIdle ==
  (~probe.rt_running /\ probe'.event = "") =>
     /\ probe'.ran = 0
     /\ ~probe'.rt_running
     /\ probe.rt_initialized =>
           /\ probe'.calls = probe.calls
           /\ probe'.rt_history = probe.rt_history

\* C30: in the real-time panel, after initialization and any sequence of
\* Reset, Start, Pause, Step and refresh events, rt_history has one entry
\* more than the simulate_step calls made since the last initialization or
\* reset and its last entry equals rt_state; Reset returns to a one-entry
\* history at time 0 with rt_running False; and while rt_running is False a
\* refresh with no button pressed executes no step.
C30_RealtimeHistory == []RtConsistent /\ [][RtIdle]_vars

\* after a reset, a start of five steps, a pause and a single step, a
\* refresh of the paused session has run no step: seven entries, six calls
C30_Witness ==
  /\ probe.rt_initialized
  /\ probe.resets = 2
  /\ probe.event = ""
  /\ ~probe.rt_running
  /\ probe.ran = 0
  /\ probe.calls = 6
  /\ Len(probe.rt_history.time) = 7
  /\ probe.rt_history.time[7] = 6 * parameters.DT
====
